---- MODULE Spec2Model ----
(***************************************************************************)
(* Gamification core of the progress service: the badge engine, the points *)
(* engine and the streak endpoints, over a PostgreSQL store reached        *)
(* through one SQLAlchemy AsyncSession per request.                        *)
(*                                                                         *)
(* Every query of the modelled code filters on student_id, so the model    *)
(* follows the rows of one student.  A request handler is a process; each  *)
(* `await` on the session (execute, flush, commit) is one step of it, and  *)
(* the Python statements between two awaits belong to the step of the      *)
(* await that precedes them.  A transaction runs at READ COMMITTED: a      *)
(* select sees what is committed at that moment, and an UPDATE writes the  *)
(* attributes the session changed on its in-memory object.                 *)
(***************************************************************************)
EXTENDS Integers, Sequences, FiniteSets, Bags, TLC

----------------------------------------------------------------------------
(* Bounds of the model. *)

MaxDay == 8
MaxHistory == 3

Procs == {1, 2}
PointDeltas == {-50, 0, 100, 300}
ConcurrentDeltas == {0, 100, 300}
MasteredCounts == {4, 5}

----------------------------------------------------------------------------
(* Rows and values. *)

\* scalar_one_or_none() returning None
NoRow == [none |-> TRUE]

\* a Date column holding NULL
NoDate == -1

\* Points(student_id=...) after the column defaults are applied
DefaultPoints ==
    [total_points |-> 0, current_level |-> 1,
     points_to_next_level |-> 100, lifetime_points |-> 0]

\* Streak(student_id=...) after the column defaults are applied on `day`
DefaultStreak(day) ==
    [current_streak |-> 0, longest_streak |-> 0, last_activity_date |-> day,
     streak_started_date |-> NoDate, total_active_days |-> 0]

\* the badge catalog (rows of table badges)
Badges ==
    << [id |-> 1, name |-> "Quick Learner", is_active |-> TRUE],
       [id |-> 2, name |-> "Consistency King", is_active |-> TRUE],
       [id |-> 3, name |-> "Subject Master", is_active |-> TRUE],
       [id |-> 4, name |-> "Explorer", is_active |-> TRUE],
       [id |-> 5, name |-> "Retired", is_active |-> FALSE] >>

BadgeIds == {Badges[i].id : i \in 1..Len(Badges)}

\* event_data as the criteria read it: a key that is absent reads as the
\* default of its .get() (streak_days 0, subject None, subject_completion 0)
NoEvent ==
    [type |-> "none", streak_days |-> 0, subject |-> FALSE,
     subject_completion |-> 0]

Event(t, days, subj, compl) ==
    [type |-> t, streak_days |-> days, subject |-> subj,
     subject_completion |-> compl]

EventInputs ==
    { Event("concept_mastered", 0, FALSE, 100),
      Event("concept_mastered", 0, TRUE, 100),
      Event("concept_mastered", 0, TRUE, 99),
      Event("daily_streak", 7, FALSE, 0),
      Event("daily_streak", 6, FALSE, 0),
      Event("daily_streak", 0, TRUE, 100),
      Event("points_awarded", 0, FALSE, 0) }

Max(a, b) == IF a >= b THEN a ELSE b

RECURSIVE SumSeq(_)
SumSeq(s) == IF s = << >> THEN 0 ELSE Head(s) + SumSeq(Tail(s))

\* int(math.sqrt(x)) for an integer x >= 0
RECURSIVE SqrtFrom(_, _)
SqrtFrom(x, r) == IF (r + 1) * (r + 1) > x THEN r ELSE SqrtFrom(x, r + 1)

ISqrt(x) == SqrtFrom(x, 0)

\* the UPDATE a flush emits: only the attributes whose value the session
\* changed since it loaded the row are written over the committed row
MergeDirty(committed, was, now) ==
    [f \in DOMAIN now |-> IF now[f] # was[f] THEN now[f] ELSE committed[f]]

----------------------------------------------------------------------------
(* Dates and times.  A datetime.date is its proleptic Gregorian ordinal    *)
(* (date.toordinal(): 1 is 0001-01-01 and MaxOrd is date.max, 9999-12-31); *)
(* date arithmetic that leaves 1..MaxOrd raises OverflowError.  A datetime *)
(* is counted in half-day ticks: tick 2 * d is 00:00:00 of date d and tick *)
(* 2 * d + 1 any later instant of that date.                               *)

MinOrd == 1
MaxOrd == 3652059

\* day 0 of `today`: Monday 2024-02-26
Epoch == 738942

is_leap(y) == y % 4 = 0 /\ (y % 100 # 0 \/ y % 400 = 0)

days_in_month(y, m) ==
    IF m = 2 THEN (IF is_leap(y) THEN 29 ELSE 28)
    ELSE IF m \in {4, 6, 9, 11} THEN 30 ELSE 31

\* number of days before January 1st of year y
days_before_year(y) ==
    (y - 1) * 365 + (y - 1) \div 4 - (y - 1) \div 100 + (y - 1) \div 400

\* number of days in year y before the first day of month m
RECURSIVE days_before_month(_, _)
days_before_month(y, m) ==
    IF m = 1 THEN 0
    ELSE days_before_month(y, m - 1) + days_in_month(y, m - 1)

\* date(y, m, d).toordinal()
Ord(y, m, d) == days_before_year(y) + days_before_month(y, m) + d

\* date.fromordinal(n).year, .month and .day
YearOf(n) ==
    CHOOSE y \in ((n - 1) \div 366 + 1)..((n - 1) \div 365 + 1) :
        days_before_year(y) < n /\ n <= days_before_year(y + 1)

MonthOf(n) ==
    CHOOSE m \in 1..12 :
        /\ Ord(YearOf(n), m, 1) <= n
        /\ n <= Ord(YearOf(n), m, days_in_month(YearOf(n), m))

DayOf(n) == n - Ord(YearOf(n), MonthOf(n), 1) + 1

\* date.weekday(): Monday is 0
Weekday(n) == (n + 6) % 7

\* 00:00:00 of date d as a datetime
Midnight(d) == 2 * d

\* func.date(ts): the date of a datetime
DateOfTick(ts) == ts \div 2

----------------------------------------------------------------------------
VARIABLES
    today,          \* date.today(), in days
    mastered24h,    \* ConceptProgress rows mastered in the trailing 24 hours
    userBadges,     \* badge id -> number of UserBadge rows of the student
    points,         \* the student's Points row, or NoRow
    pointHistory,   \* points_awarded of the student's PointHistory rows
    streak,         \* the student's Streak row, or NoRow
    pc,             \* position of each request handler
    op,             \* the operation each request runs
    event,          \* event_type and event_data of the badge evaluation
    amount,         \* the `points` argument of award_points
    badges,         \* result of the active-badge select
    bidx,           \* index of the badge the loop is at
    earned,         \* earned_badges, as badge ids
    was,            \* the row as the session loaded it
    obj,            \* the session's in-memory object
    created,        \* the session has db.add()ed the row itself
    result,         \* what the handler returns
    err,            \* the operation an exception escaped from
    pre,            \* stored rows when the request started
    activeDays,     \* days on which update_streak has been called
    args,           \* the arguments of an analytics or batch request
    failed,         \* entities whose processing hit a storage failure
    concepts,       \* the ConceptProgress rows
    awardedAt,      \* awarded_at of the PointHistory rows, in their order
    earnedAt,       \* badge id -> earned_at of the student's UserBadge row
    analytics,      \* the Analytics rows, a bag: no constraint keeps them apart
    calc,           \* the call of a query-only function and what it returned
    awards          \* number of award_points calls that have committed

reqVars == <<pc, op, event, amount, badges, bidx, earned, was, obj, created,
             result, err, pre, args, failed>>
dbVars == <<userBadges, points, pointHistory, streak>>
auxVars == <<concepts, awardedAt, earnedAt, analytics, calc, awards>>
vars == <<today, mastered24h, userBadges, points, pointHistory, streak,
          pc, op, event, amount, badges, bidx, earned, was, obj, created,
          result, err, pre, activeDays, args, failed, concepts, awardedAt,
          earnedAt, analytics, calc, awards>>

NoResult == [kind |-> "none"]

\* a request that takes none of the analytics or batch arguments
NoArgs == [none |-> TRUE]

\* no query-only function is being called
NoCall == [fn |-> "none"]

Snapshot ==
    [held |-> {b \in BadgeIds : userBadges[b] > 0},
     points |-> points, history |-> pointHistory, streak |-> streak,
     calledToday |-> today \in activeDays, analytics |-> analytics]

NoSnapshot ==
    [held |-> {}, points |-> NoRow, history |-> << >>, streak |-> NoRow,
     calledToday |-> FALSE, analytics |-> EmptyBag]

Init ==
    /\ today = 0
    /\ mastered24h \in MasteredCounts
    /\ userBadges = [b \in BadgeIds |-> 0]
    /\ points = NoRow
    /\ pointHistory = << >>
    /\ streak = NoRow
    /\ pc = [p \in Procs |-> "idle"]
    /\ op = [p \in Procs |-> "none"]
    /\ event = [p \in Procs |-> NoEvent]
    /\ amount = [p \in Procs |-> 0]
    /\ badges = [p \in Procs |-> << >>]
    /\ bidx = [p \in Procs |-> 0]
    /\ earned = [p \in Procs |-> << >>]
    /\ was = [p \in Procs |-> NoRow]
    /\ obj = [p \in Procs |-> NoRow]
    /\ created = [p \in Procs |-> FALSE]
    /\ result = [p \in Procs |-> NoResult]
    /\ err = [p \in Procs |-> "none"]
    /\ pre = [p \in Procs |-> NoSnapshot]
    /\ activeDays = {}
    /\ args = [p \in Procs |-> NoArgs]
    /\ failed = [p \in Procs |-> {}]
    /\ concepts = {}
    /\ awardedAt = << >>
    /\ earnedAt = [b \in BadgeIds |-> NoDate]
    /\ analytics = EmptyBag
    /\ calc = NoCall
    /\ awards = 0

Idle == \A p \in Procs : pc[p] = "idle"

\* date.today() as a date
TodayDate == Epoch + today

\* datetime.utcnow(), the default of awarded_at and earned_at: an instant of
\* today after midnight
Now == Midnight(TodayDate) + 1

\* a request arrives: the handler starts with a fresh session
Begin(p, o, at, e, n) ==
    /\ pc[p] = "idle"
    /\ pc' = [pc EXCEPT ![p] = at]
    /\ op' = [op EXCEPT ![p] = o]
    /\ event' = [event EXCEPT ![p] = e]
    /\ amount' = [amount EXCEPT ![p] = n]
    /\ pre' = [pre EXCEPT ![p] = Snapshot]
    /\ UNCHANGED <<badges, bidx, earned, was, obj, created, result, err, args,
                   failed>>

\* the response (or the error) is delivered and the session is closed
Return(p) ==
    /\ pc[p] \in {"done", "raised"}
    /\ pc' = [pc EXCEPT ![p] = "idle"]
    /\ op' = [op EXCEPT ![p] = "none"]
    /\ event' = [event EXCEPT ![p] = NoEvent]
    /\ amount' = [amount EXCEPT ![p] = 0]
    /\ badges' = [badges EXCEPT ![p] = << >>]
    /\ bidx' = [bidx EXCEPT ![p] = 0]
    /\ earned' = [earned EXCEPT ![p] = << >>]
    /\ was' = [was EXCEPT ![p] = NoRow]
    /\ obj' = [obj EXCEPT ![p] = NoRow]
    /\ created' = [created EXCEPT ![p] = FALSE]
    /\ result' = [result EXCEPT ![p] = NoResult]
    /\ err' = [err EXCEPT ![p] = "none"]
    /\ pre' = [pre EXCEPT ![p] = NoSnapshot]
    /\ args' = [args EXCEPT ![p] = NoArgs]
    /\ failed' = [failed EXCEPT ![p] = {}]
    /\ UNCHANGED <<today, mastered24h, dbVars, activeDays, auxVars>>

----------------------------------------------------------------------------
(* BadgeEngine *)

\* the criteria without the test of the event type for Subject Master
check_badge_criteria_any_event(badge, e, mastered) ==
    IF badge.name = "Quick Learner"
    THEN e.type = "concept_mastered" /\ mastered >= 5
    ELSE IF badge.name = "Consistency King"
    THEN e.type = "daily_streak" /\ e.streak_days >= 7
    ELSE IF badge.name = "Subject Master"
    THEN e.subject /\ e.subject_completion >= 100
    ELSE FALSE

\* BadgeEngine._check_badge_criteria
check_badge_criteria(badge, e, mastered) ==
    IF badge.name = "Quick Learner"
    THEN e.type = "concept_mastered" /\ mastered >= 5
    ELSE IF badge.name = "Consistency King"
    THEN e.type = "daily_streak" /\ e.streak_days >= 7
    ELSE IF badge.name = "Subject Master"
    THEN e.type = "concept_mastered" /\ e.subject
         /\ e.subject_completion >= 100
    ELSE FALSE

\* select(Badge).where(Badge.is_active == True)
ActiveBadges == SelectSeq(Badges, LAMBDA b : b.is_active)

\* the select of _award_badge: a UserBadge row of (student, badge) exists
ExistingUserBadge(b) == userBadges[b] > 0

\* the table without its unique constraint
UniqueViolationNever(b) == FALSE

\* UniqueConstraint("student_id", "badge_id") rejects the INSERT
UniqueViolation(b) == userBadges[b] > 0

\* the badge is reported whatever _award_badge returned
AppendEarnedAlways(list, b, awarded) == Append(list, b)

\* `if user_badge: earned_badges.append(...)`
AppendEarned(list, b, awarded) == IF awarded THEN Append(list, b) ELSE list

\* the loop moves to the next badge, or the evaluation returns
NextBadge(p, list) ==
    /\ earned' = [earned EXCEPT ![p] = list]
    /\ IF bidx[p] < Len(badges[p])
       THEN /\ bidx' = [bidx EXCEPT ![p] = bidx[p] + 1]
            /\ pc' = [pc EXCEPT ![p] = "ba_eval"]
            /\ result' = result
       ELSE /\ bidx' = bidx
            /\ pc' = [pc EXCEPT ![p] = "done"]
            /\ result' = [result EXCEPT ![p] =
                   IF op[p] = "check_and_award_badges"
                   THEN [kind |-> "badges", earned_badges |-> list]
                   ELSE IF op[p] = "award_points"
                   THEN [result[p] EXCEPT !.earned_badges = list]
                   ELSE result[p]]

\* check_and_award_badges is called by a client of the engine
StartCheckAndAward(p) ==
    /\ Idle
    /\ \E e \in EventInputs : Begin(p, "check_and_award_badges", "ba_select", e, 0)
    /\ UNCHANGED <<today, mastered24h, dbVars, activeDays, auxVars>>

StartCheckAndAwardConcurrent(p) ==
    /\ \E e \in EventInputs : Begin(p, "check_and_award_badges", "ba_select", e, 0)
    /\ UNCHANGED <<today, mastered24h, dbVars, activeDays, auxVars>>

\* the select of the active badges
BaSelect(p) ==
    /\ pc[p] = "ba_select"
    /\ badges' = [badges EXCEPT ![p] = ActiveBadges]
    /\ IF ActiveBadges = << >>
       THEN /\ pc' = [pc EXCEPT ![p] = "done"]
            /\ bidx' = bidx
            /\ result' = [result EXCEPT ![p] =
                   IF op[p] = "check_and_award_badges"
                   THEN [kind |-> "badges", earned_badges |-> << >>]
                   ELSE result[p]]
       ELSE /\ pc' = [pc EXCEPT ![p] = "ba_eval"]
            /\ bidx' = [bidx EXCEPT ![p] = 1]
            /\ result' = result
    /\ UNCHANGED <<args, failed, auxVars,
                   today, mastered24h, dbVars, activeDays, op, event, amount,
                   earned, was, obj, created, err, pre>>

\* one iteration of the loop up to the commit of _award_badge: the criteria,
\* then the select of an existing UserBadge
BaEval(p) ==
    /\ pc[p] = "ba_eval"
    /\ LET badge == badges[p][bidx[p]] IN
       IF check_badge_criteria(badge, event[p], mastered24h)
       THEN IF ExistingUserBadge(badge.id)
            THEN NextBadge(p, AppendEarned(earned[p], badge.id, FALSE))
            ELSE /\ pc' = [pc EXCEPT ![p] = "ba_commit"]
                 /\ UNCHANGED <<bidx, earned, result>>
       ELSE NextBadge(p, earned[p])
    /\ UNCHANGED <<args, failed, auxVars,
                   today, mastered24h, dbVars, activeDays, op, event, amount,
                   badges, was, obj, created, err, pre>>

\* db.add(user_badge); db.commit(): the INSERT commits, or the exception is
\* caught, the session rolled back and None returned
BaCommit(p) ==
    /\ pc[p] = "ba_commit"
    /\ LET b == badges[p][bidx[p]].id IN
       IF UniqueViolation(b)
       THEN /\ UNCHANGED <<userBadges, earnedAt>>
            /\ failed' = [failed EXCEPT ![p] = @ \cup {b}]
            /\ NextBadge(p, AppendEarned(earned[p], b, FALSE))
       ELSE /\ userBadges' = [userBadges EXCEPT ![b] = @ + 1]
            /\ earnedAt' = [earnedAt EXCEPT ![b] = Now]
            /\ failed' = failed
            /\ NextBadge(p, AppendEarned(earned[p], b, TRUE))
    /\ UNCHANGED <<args, concepts, awardedAt, awards, analytics, calc,
                   today, mastered24h, points, pointHistory, streak,
                   activeDays, op, event, amount, badges, was, obj, created,
                   err, pre>>

NextBadgeSeq ==
    \E p \in Procs :
        StartCheckAndAward(p) \/ BaSelect(p) \/ BaEval(p) \/ BaCommit(p)
        \/ Return(p)

SpecBadge == Init /\ [][NextBadgeSeq]_vars

NextBadgeConc ==
    \E p \in Procs :
        StartCheckAndAwardConcurrent(p) \/ BaSelect(p) \/ BaEval(p)
        \/ BaCommit(p) \/ Return(p)

SpecBadgeConc == Init /\ [][NextBadgeConc]_vars

----------------------------------------------------------------------------
(* PointsEngine and the points endpoints *)

\* an exception escapes operation `where`; the session is rolled back
Raise(p, where) ==
    /\ pc' = [pc EXCEPT ![p] = "raised"]
    /\ err' = [err EXCEPT ![p] = where]

\* PointsEngine._check_level_up, for total_points >= 0
check_level_up(row) ==
    LET new_level == ISqrt(row.total_points \div 100) + 1 IN
    IF new_level > row.current_level
    THEN [points |-> [row EXCEPT
              !.current_level = new_level,
              !.points_to_next_level =
                  new_level * new_level * 100 - row.total_points],
          level_up |-> TRUE]
    ELSE [points |-> [row EXCEPT
              !.points_to_next_level =
                  row.current_level * row.current_level * 100
                  - row.total_points],
          level_up |-> FALSE]

\* the failed transaction leaves what it had flushed
RolledBackPartly(committed, attempted) == attempted

\* db.rollback() after a failed step: the stored row is the committed one
RolledBack(committed, attempted) == committed

\* total_points and lifetime_points of the student, a missing row reading
\* as the defaults a created row starts from
PointsView == IF points = NoRow THEN DefaultPoints ELSE points

\* award_points calls that have not committed or failed yet
AwardsInFlight ==
    {q \in Procs : op[q] = "award_points"
                   /\ pc[q] \in {"ap_select", "ap_flush", "ap_commit"}}

\* another transaction holds an uncommitted INSERT of the student's Points
\* row: an INSERT of the same student_id waits for it to end
InsertPending(p) ==
    \E q \in Procs \ {p} :
        op[q] = "award_points" /\ pc[q] = "ap_commit" /\ created[q]

\* award_points from `total_points += points` to `db.add(history)`, on the
\* object `row` the session holds; math.sqrt raises on a negative total
ApAward(p, row) ==
    LET added == [row EXCEPT !.total_points = @ + amount[p],
                             !.lifetime_points = @ + amount[p]]
    IN  /\ was' = [was EXCEPT ![p] = row]
        /\ IF added.total_points < 0
           THEN /\ Raise(p, "award_points")
                /\ obj' = [obj EXCEPT ![p] = added]
                /\ result' = result
           ELSE /\ pc' = [pc EXCEPT ![p] = "ap_commit"]
                /\ err' = err
                /\ obj' = [obj EXCEPT ![p] = check_level_up(added).points]
                /\ result' = [result EXCEPT ![p] =
                       [kind |-> "award", points_awarded |-> amount[p],
                        level_up |-> check_level_up(added).level_up]]

\* POST /gamification/points/award
StartAwardPoints(p) ==
    /\ Idle
    /\ Len(pointHistory) < MaxHistory
    /\ \E n \in PointDeltas :
           Begin(p, "award_points", "ap_select",
                 Event("points_awarded", 0, FALSE, 0), n)
    /\ UNCHANGED <<today, mastered24h, dbVars, activeDays, auxVars>>

StartAwardPointsConcurrent(p) ==
    /\ Len(pointHistory) + Cardinality(AwardsInFlight) < MaxHistory
    /\ \E n \in ConcurrentDeltas :
           Begin(p, "award_points", "ap_select",
                 Event("points_awarded", 0, FALSE, 0), n)
    /\ UNCHANGED <<today, mastered24h, dbVars, activeDays, auxVars>>

\* _get_or_create_points: the select
ApSelect(p) ==
    /\ pc[p] = "ap_select"
    /\ IF points = NoRow
       THEN /\ pc' = [pc EXCEPT ![p] = "ap_flush"]
            /\ created' = [created EXCEPT ![p] = TRUE]
            /\ UNCHANGED <<was, obj, result, err>>
       ELSE /\ ApAward(p, points)
            /\ created' = created
    /\ UNCHANGED <<args, failed, auxVars,
                   today, mastered24h, dbVars, activeDays, op, event, amount,
                   badges, bidx, earned, pre>>

\* _get_or_create_points: db.add(points); db.flush() sends the INSERT, which
\* the unique student_id rejects when the row has been committed meanwhile
ApFlush(p) ==
    /\ pc[p] = "ap_flush"
    /\ ~InsertPending(p)
    /\ IF points # NoRow
       THEN /\ Raise(p, "award_points")
            /\ UNCHANGED <<was, obj, result>>
       ELSE ApAward(p, DefaultPoints)
    /\ UNCHANGED <<args, failed, auxVars,
                   today, mastered24h, dbVars, activeDays, op, event, amount,
                   badges, bidx, earned, created, pre>>

\* an award of 0 points leaves no history entry
AppendHistoryNonZero(history, n) ==
    IF n = 0 THEN history ELSE Append(history, n)

\* `history = PointHistory(..., points_awarded=points, ...); db.add(history)`
AppendHistory(history, n) == Append(history, n)

\* the commit adds the delta to the stored total once more
ApStoredTwice(p) ==
    [MergeDirty(IF created[p] THEN DefaultPoints ELSE points, was[p], obj[p])
         EXCEPT !.total_points = @ + amount[p]]

\* the row the commit of award_points stores
ApStored(p) ==
    MergeDirty(IF created[p] THEN DefaultPoints ELSE points, was[p], obj[p])

\* db.commit(): the UPDATE of the Points row and the INSERT of the
\* PointHistory row commit together; the endpoint goes on to the badges
ApCommit(p) ==
    /\ pc[p] = "ap_commit"
    /\ points' = ApStored(p)
    /\ pointHistory' = AppendHistory(pointHistory, amount[p])
    /\ awardedAt' = Append(awardedAt, Now)
    /\ awards' = awards + 1
    /\ result' = [result EXCEPT ![p] =
           [kind |-> "award", points_awarded |-> amount[p],
            total_points |-> obj[p].total_points,
            current_level |-> obj[p].current_level,
            level_up |-> result[p].level_up,
            earned_badges |-> << >>]]
    /\ pc' = [pc EXCEPT ![p] = "ba_select"]
    /\ UNCHANGED <<args, failed, concepts, earnedAt, analytics, calc,
                   today, mastered24h, userBadges, streak, activeDays, op,
                   event, amount, badges, bidx, earned, was, obj, created,
                   err, pre>>

\* the select, the flush or the commit of award_points fails: the except
\* clause rolls the session back and re-raises
ApFail(p) ==
    /\ pc[p] \in {"ap_select", "ap_flush", "ap_commit"}
    /\ Raise(p, "award_points")
    /\ points' = IF pc[p] = "ap_commit"
                 THEN RolledBack(points, ApStored(p))
                 ELSE points
    /\ UNCHANGED <<args, failed, auxVars,
                   today, mastered24h, userBadges, pointHistory, streak,
                   activeDays, op, event, amount, badges, bidx, earned, was,
                   obj, created, result, pre>>

\* GET /gamification/points/{student_id}
StartGetPoints(p) ==
    /\ Idle
    /\ Begin(p, "get_student_points", "gp_select", NoEvent, 0)
    /\ UNCHANGED <<today, mastered24h, dbVars, activeDays, auxVars>>

GpSelect(p) ==
    /\ pc[p] = "gp_select"
    /\ IF points = NoRow
       THEN /\ pc' = [pc EXCEPT ![p] = "gp_commit"]
            /\ created' = [created EXCEPT ![p] = TRUE]
            /\ result' = result
       ELSE /\ pc' = [pc EXCEPT ![p] = "done"]
            /\ created' = created
            /\ result' = [result EXCEPT ![p] =
                              [kind |-> "points", row |-> points]]
    /\ UNCHANGED <<args, failed, auxVars,
                   today, mastered24h, dbVars, activeDays, op, event, amount,
                   badges, bidx, earned, was, obj, err, pre>>

\* db.add(points); db.commit(); db.refresh(points)
GpCommit(p) ==
    /\ pc[p] = "gp_commit"
    /\ ~InsertPending(p)
    /\ IF points # NoRow
       THEN /\ Raise(p, "get_student_points")
            /\ UNCHANGED <<points, result>>
       ELSE /\ points' = DefaultPoints
            /\ pc' = [pc EXCEPT ![p] = "done"]
            /\ err' = err
            /\ result' = [result EXCEPT ![p] =
                              [kind |-> "points", row |-> DefaultPoints]]
    /\ UNCHANGED <<args, failed, auxVars,
                   today, mastered24h, userBadges, pointHistory, streak,
                   activeDays, op, event, amount, badges, bidx, earned, was,
                   obj, created, pre>>

NextPoints ==
    \E p \in Procs :
        StartAwardPoints(p) \/ ApSelect(p) \/ ApFlush(p) \/ ApCommit(p)
        \/ ApFail(p) \/ StartGetPoints(p) \/ GpSelect(p) \/ GpCommit(p)
        \/ BaSelect(p) \/ BaEval(p) \/ Return(p)

SpecPoints == Init /\ [][NextPoints]_vars

NextPointsConc ==
    \E p \in Procs :
        StartAwardPointsConcurrent(p) \/ ApSelect(p) \/ ApFlush(p)
        \/ ApCommit(p) \/ BaSelect(p) \/ BaEval(p) \/ Return(p)

SpecPointsConc == Init /\ [][NextPointsConc]_vars

----------------------------------------------------------------------------
(* The streak endpoints *)

\* the comparison without the day of grace
NeedsResetFromYesterday(row, day) ==
    row.last_activity_date # NoDate /\ row.last_activity_date < day

\* `streak.last_activity_date and
\*  streak.last_activity_date < date.today() - timedelta(days=1)`
NeedsReset(row, day) ==
    row.last_activity_date # NoDate /\ row.last_activity_date < day - 1

\* get_student_streak: "Streak broken"
BrokenStreak(row) ==
    [row EXCEPT !.current_streak = 0, !.streak_started_date = NoDate]

\* the Streak update_streak creates; last_activity_date takes the column
\* default date.today when the row is inserted
NewStreak(day) ==
    [current_streak |-> 1, longest_streak |-> 1, last_activity_date |-> day,
     streak_started_date |-> day, total_active_days |-> 1]

\* update_streak without the branch that starts a new streak
update_streak_row_no_reset(row, day) ==
    IF row.last_activity_date = day
    THEN [changed |-> FALSE, row |-> row]
    ELSE [changed |-> TRUE,
          row |-> [row EXCEPT
              !.current_streak = @ + 1,
              !.longest_streak = Max(@, row.current_streak + 1),
              !.last_activity_date = day,
              !.total_active_days = @ + 1]]

\* update_streak without the "already updated today" return
update_streak_row_no_return(row, day) ==
    IF row.last_activity_date = day - 1
    THEN [changed |-> TRUE,
          row |-> [row EXCEPT
              !.current_streak = @ + 1,
              !.longest_streak = Max(@, row.current_streak + 1),
              !.last_activity_date = day,
              !.total_active_days = @ + 1]]
    ELSE [changed |-> TRUE,
          row |-> [row EXCEPT
              !.current_streak = 1,
              !.streak_started_date = day,
              !.last_activity_date = day,
              !.total_active_days = @ + 1]]

\* update_streak on an existing row: what the handler does to the object
\* before the commit; changed is FALSE when it returns without committing
update_streak_row(row, day) ==
    IF row.last_activity_date = day
    THEN [changed |-> FALSE, row |-> row]
    ELSE IF row.last_activity_date = day - 1
    THEN [changed |-> TRUE,
          row |-> [row EXCEPT
              !.current_streak = @ + 1,
              !.longest_streak =
                  IF row.current_streak + 1 > @
                  THEN row.current_streak + 1 ELSE @,
              !.last_activity_date = day,
              !.total_active_days = @ + 1]]
    ELSE [changed |-> TRUE,
          row |-> [row EXCEPT
              !.current_streak = 1,
              !.streak_started_date = day,
              !.last_activity_date = day,
              !.total_active_days = @ + 1]]

\* midnight passes while no request is being served
AdvanceDay ==
    /\ Idle
    /\ today < MaxDay
    /\ today' = today + 1
    /\ UNCHANGED <<mastered24h, dbVars, reqVars, activeDays, auxVars>>

\* GET /gamification/streaks/{student_id}
StartGetStreak(p) ==
    /\ Idle
    /\ Begin(p, "get_student_streak", "gs_select", NoEvent, 0)
    /\ UNCHANGED <<today, mastered24h, dbVars, activeDays, auxVars>>

\* the handler holds `row`: it resets a broken streak or returns
GsCheckReset(p, row) ==
    /\ was' = [was EXCEPT ![p] = row]
    /\ IF NeedsReset(row, today)
       THEN /\ obj' = [obj EXCEPT ![p] = BrokenStreak(row)]
            /\ pc' = [pc EXCEPT ![p] = "gs_reset"]
            /\ result' = result
       ELSE /\ obj' = [obj EXCEPT ![p] = row]
            /\ pc' = [pc EXCEPT ![p] = "done"]
            /\ result' = [result EXCEPT ![p] =
                              [kind |-> "streak", row |-> row]]

GsSelect(p) ==
    /\ pc[p] = "gs_select"
    /\ IF streak = NoRow
       THEN /\ pc' = [pc EXCEPT ![p] = "gs_create"]
            /\ created' = [created EXCEPT ![p] = TRUE]
            /\ UNCHANGED <<was, obj, result>>
       ELSE /\ GsCheckReset(p, streak)
            /\ created' = created
    /\ UNCHANGED <<args, failed, auxVars,
                   today, mastered24h, dbVars, activeDays, op, event, amount,
                   badges, bidx, earned, err, pre>>

\* db.add(streak); db.commit(); db.refresh(streak), then the reset check
GsCreate(p) ==
    /\ pc[p] = "gs_create"
    /\ IF streak # NoRow
       THEN /\ Raise(p, "get_student_streak")
            /\ UNCHANGED <<streak, was, obj, result>>
       ELSE /\ streak' = DefaultStreak(today)
            /\ GsCheckReset(p, DefaultStreak(today))
            /\ err' = err
    /\ UNCHANGED <<args, failed, auxVars,
                   today, mastered24h, userBadges, points, pointHistory,
                   activeDays, op, event, amount, badges, bidx, earned,
                   created, pre>>

\* the commit of the reset
GsReset(p) ==
    /\ pc[p] = "gs_reset"
    /\ streak' = MergeDirty(streak, was[p], obj[p])
    /\ pc' = [pc EXCEPT ![p] = "done"]
    /\ result' = [result EXCEPT ![p] = [kind |-> "streak", row |-> obj[p]]]
    /\ UNCHANGED <<args, failed, auxVars,
                   today, mastered24h, userBadges, points, pointHistory,
                   activeDays, op, event, amount, badges, bidx, earned, was,
                   obj, created, err, pre>>

\* POST /gamification/streaks/{student_id}/update
StartUpdateStreak(p) ==
    /\ Idle
    /\ Begin(p, "update_streak", "us_select", NoEvent, 0)
    /\ activeDays' = activeDays \cup {today}
    /\ UNCHANGED <<today, mastered24h, dbVars, auxVars>>

\* the select and the branches up to the commit
UsSelect(p) ==
    /\ pc[p] = "us_select"
    /\ IF streak = NoRow
       THEN /\ created' = [created EXCEPT ![p] = TRUE]
            /\ obj' = [obj EXCEPT ![p] = NewStreak(today)]
            /\ pc' = [pc EXCEPT ![p] = "us_commit"]
            /\ UNCHANGED <<was, result>>
       ELSE /\ created' = created
            /\ was' = [was EXCEPT ![p] = streak]
            /\ obj' = [obj EXCEPT ![p] = update_streak_row(streak, today).row]
            /\ IF update_streak_row(streak, today).changed
               THEN /\ pc' = [pc EXCEPT ![p] = "us_commit"]
                    /\ result' = result
               ELSE /\ pc' = [pc EXCEPT ![p] = "done"]
                    /\ result' = [result EXCEPT ![p] =
                                      [kind |-> "streak", row |-> streak]]
    /\ UNCHANGED <<args, failed, auxVars,
                   today, mastered24h, dbVars, activeDays, op, event, amount,
                   badges, bidx, earned, err, pre>>

\* the row the commit of update_streak stores
UsStored(p) ==
    IF created[p]
    THEN [obj[p] EXCEPT !.last_activity_date = today]
    ELSE MergeDirty(streak, was[p], obj[p])

\* the table without the unique student_id
StreakInsertAccepted(p) == FALSE

\* the INSERT of a second Streak row of the student violates the unique
\* student_id
StreakInsertRejected(p) == created[p] /\ streak # NoRow

\* the streak_days of the row as it was loaded, before the increment
StreakDaysLoaded(p) == IF created[p] THEN 0 ELSE was[p].current_streak

\* {"streak_days": streak.current_streak} after db.refresh(streak)
StreakDaysPassed(p) == UsStored(p).current_streak

\* db.commit(); db.refresh(streak); the handler goes on to the badges with
\* the refreshed current_streak
UsCommit(p) ==
    /\ pc[p] = "us_commit"
    /\ IF StreakInsertRejected(p)
       THEN /\ Raise(p, "update_streak")
            /\ UNCHANGED <<streak, obj, event, result>>
       ELSE /\ streak' = UsStored(p)
            /\ obj' = [obj EXCEPT ![p] = UsStored(p)]
            /\ event' = [event EXCEPT ![p] =
                   Event("daily_streak", StreakDaysPassed(p), FALSE, 0)]
            /\ result' = [result EXCEPT ![p] =
                              [kind |-> "streak", row |-> UsStored(p)]]
            /\ pc' = [pc EXCEPT ![p] = "ba_select"]
            /\ err' = err
    /\ UNCHANGED <<args, failed, auxVars,
                   today, mastered24h, userBadges, points, pointHistory,
                   activeDays, op, amount, badges, bidx, earned, was, created,
                   pre>>

NextStreak ==
    \/ AdvanceDay
    \/ \E p \in Procs :
        StartGetStreak(p) \/ GsSelect(p) \/ GsCreate(p) \/ GsReset(p)
        \/ StartUpdateStreak(p) \/ UsSelect(p) \/ UsCommit(p)
        \/ BaSelect(p) \/ BaEval(p) \/ BaCommit(p) \/ Return(p)

SpecStreak == Init /\ [][NextStreak]_vars

----------------------------------------------------------------------------
(* Badge awards *)

Range(s) == {s[i] : i \in 1..Len(s)}

BadgeById(b) == CHOOSE x \in Range(Badges) : x.id = b

\* the event of request p meets the criteria of active badge b
Qualifies(p, b) ==
    /\ BadgeById(b).is_active
    /\ check_badge_criteria(BadgeById(b), event[p], mastered24h)

\* C1: with one check_and_award_badges call at a time, a call never reports
\* a badge the student held when the call started, a reported badge has
\* its single UserBadge row, no (student, badge) has a second row, and no
\* call raises.
C1_AwardedAtMostOnce ==
    /\ \A b \in BadgeIds : userBadges[b] <= 1
    /\ \A p \in Procs :
        /\ pc[p] # "raised"
        /\ \A b \in Range(earned[p]) :
               b \notin pre[p].held /\ userBadges[b] = 1

\* a later call with qualifying event data has returned without the badge
C1_Witness ==
    \E p \in Procs : \E b \in BadgeIds :
        /\ op[p] = "check_and_award_badges" /\ pc[p] = "done"
        /\ b \in pre[p].held
        /\ Qualifies(p, b)
        /\ b \notin Range(earned[p])
        /\ userBadges[b] = 1

\* C2: when two concurrent check_and_award_badges calls that both qualify
\* for a badge the student did not hold when they started have completed,
\* one UserBadge row exists for it and exactly one of the calls reports it;
\* no call raises and no (student, badge) ever has two rows.
C2_ExactlyOneWinner ==
    /\ \A p \in Procs : pc[p] # "raised"
    /\ \A b \in BadgeIds :
        /\ userBadges[b] <= 1
        /\ (\A p \in Procs :
                pc[p] = "done" /\ Qualifies(p, b) /\ b \notin pre[p].held)
           => /\ userBadges[b] = 1
              /\ Cardinality({p \in Procs : b \in Range(earned[p])}) = 1

\* both calls started without the badge, one reports it, the other not
C2_Witness ==
    \E b \in BadgeIds : \E p, q \in Procs :
        /\ p # q
        /\ pc[p] = "done" /\ pc[q] = "done"
        /\ Qualifies(p, b) /\ Qualifies(q, b)
        /\ b \notin pre[p].held /\ b \notin pre[q].held
        /\ b \in Range(earned[p]) /\ b \notin Range(earned[q])
        /\ userBadges[b] = 1

----------------------------------------------------------------------------
(* Points *)

\* C3: whenever a Points row is stored, its current_level is
\* floor(sqrt(total_points / 100)) + 1.
C3_LevelFormula ==
    points # NoRow
    => points.current_level = ISqrt(points.total_points \div 100) + 1

\* C4: no step lowers total_points or lifetime_points.
C4_NeverDecrease ==
    [][/\ PointsView'.total_points >= PointsView.total_points
       /\ PointsView'.lifetime_points >= PointsView.lifetime_points]_vars

\* C5: when two award_points calls that started from the same stored state
\* have both committed, total_points is the total they started from plus
\* both deltas, and it is the sum of the PointHistory deltas.
C5_NoLostUpdate ==
    \A p, q \in Procs :
        (/\ p # q
         /\ op[p] = "award_points" /\ op[q] = "award_points"
         /\ pc[p] = "done" /\ pc[q] = "done"
         /\ pre[p].history = pre[q].history
         /\ pre[p].points = pre[q].points /\ pre[p].points # NoRow)
        => /\ points.total_points
                  = pre[p].points.total_points + amount[p] + amount[q]
           /\ points.total_points = SumSeq(pointHistory)

\* C6: with one request at a time, an award_points call that has raised
\* leaves the Points row and the PointHistory as they were when it started;
\* a call that has committed has stored its delta and its one history entry;
\* and in every state total_points is the sum of the PointHistory deltas.
C6_FailureRollsBack ==
    /\ PointsView.total_points = SumSeq(pointHistory)
    /\ \A p \in Procs :
        /\ (pc[p] = "raised" /\ err[p] = "award_points")
           => (points = pre[p].points /\ pointHistory = pre[p].history)
        /\ (op[p] = "award_points"
            /\ pc[p] \in {"ba_select", "ba_eval", "done"})
           => /\ pointHistory = Append(pre[p].history, amount[p])
              /\ points # NoRow
              /\ points.total_points
                     = SumSeq(pre[p].history) + amount[p]

\* the commit of an award that would have changed an existing row failed,
\* and the call has raised
C6_Witness ==
    \E p \in Procs :
        /\ pc[p] = "raised" /\ err[p] = "award_points"
        /\ pre[p].points # NoRow
        /\ amount[p] > 0
        /\ obj[p] # NoRow
        /\ obj[p].total_points = pre[p].points.total_points + amount[p]
        /\ points = pre[p].points

----------------------------------------------------------------------------
(* Streaks *)

\* C7: a stored Streak row has longest_streak >= current_streak.
C7_LongestAtLeastCurrent ==
    streak # NoRow => streak.longest_streak >= streak.current_streak

\* C8: when the first update_streak call made for the student has returned,
\* current_streak = 1, longest_streak = 1, streak_started_date = today and
\* total_active_days = 1.
C8_FirstUpdate ==
    \A p \in Procs :
        (/\ op[p] = "update_streak" /\ pc[p] = "done"
         /\ ~pre[p].calledToday /\ activeDays = {today})
        => /\ streak # NoRow
           /\ streak.current_streak = 1
           /\ streak.longest_streak = 1
           /\ streak.streak_started_date = today
           /\ streak.total_active_days = 1

\* C9: once update_streak has committed on a row whose last_activity_date
\* was yesterday, current_streak is one more than before and longest_streak
\* is the larger of its old value and the new current_streak; on a row whose
\* last_activity_date was two or more days old, current_streak is 1 and
\* streak_started_date is today.
C9_ContinueOrReset ==
    \A p \in Procs :
        (/\ op[p] = "update_streak"
         /\ pc[p] \in {"ba_select", "ba_eval", "ba_commit", "done"}
         /\ pre[p].streak # NoRow)
        => /\ (pre[p].streak.last_activity_date = today - 1)
              => /\ streak.current_streak
                        = pre[p].streak.current_streak + 1
                 /\ streak.longest_streak
                        = Max(pre[p].streak.longest_streak,
                              streak.current_streak)
           /\ (pre[p].streak.last_activity_date < today - 1)
              => /\ streak.current_streak = 1
                 /\ streak.streak_started_date = today

\* a streak that had reached 2 on consecutive days has been started again
\* after a gap
C9_Witness ==
    \E p \in Procs :
        /\ op[p] = "update_streak" /\ pc[p] = "done"
        /\ pre[p].streak # NoRow
        /\ pre[p].streak.last_activity_date < today - 1
        /\ streak.longest_streak >= 2
        /\ streak.current_streak = 1
        /\ streak.last_activity_date = today

\* C10: an update_streak call made on a day on which update_streak had
\* already been called leaves every field of the Streak row as it was.
C10_SameDayNoOp ==
    \A p \in Procs :
        (op[p] = "update_streak" /\ pre[p].calledToday)
        => streak = pre[p].streak

\* the second call of the day has returned on a running streak
C10_Witness ==
    \E p \in Procs :
        /\ op[p] = "update_streak" /\ pc[p] = "done"
        /\ pre[p].calledToday
        /\ streak # NoRow
        /\ streak.current_streak >= 2
        /\ streak.last_activity_date = today
        /\ streak = pre[p].streak

\* C11: between requests, total_active_days (0 while no row is stored) is
\* the number of distinct days on which update_streak has been called.
C11_ActiveDaysCount ==
    Idle => (IF streak = NoRow THEN 0 ELSE streak.total_active_days)
                = Cardinality(activeDays)

\* C12: when get_student_streak has returned on a row that was stored when
\* it started, current_streak is 0 if last_activity_date was before
\* yesterday and is unchanged if it was today or yesterday; longest_streak,
\* total_active_days and last_activity_date are as they were.
C12_LazyReset ==
    \A p \in Procs :
        (/\ op[p] = "get_student_streak" /\ pc[p] = "done"
         /\ pre[p].streak # NoRow)
        => /\ (pre[p].streak.last_activity_date < today - 1)
              => streak.current_streak = 0
           /\ (pre[p].streak.last_activity_date \in {today, today - 1})
              => streak.current_streak = pre[p].streak.current_streak
           /\ streak.longest_streak = pre[p].streak.longest_streak
           /\ streak.total_active_days = pre[p].streak.total_active_days
           /\ streak.last_activity_date = pre[p].streak.last_activity_date

\* a running streak that was last fed before yesterday has been read and
\* is stored as broken
C12_Witness ==
    \E p \in Procs :
        /\ op[p] = "get_student_streak" /\ pc[p] = "done"
        /\ pre[p].streak # NoRow
        /\ pre[p].streak.current_streak >= 2
        /\ pre[p].streak.last_activity_date < today - 1
        /\ streak.current_streak = 0
        /\ streak.longest_streak >= 2

----------------------------------------------------------------------------
(* Points: the zero award *)

\* C18: once award_points with delta 0 has committed, total_points,
\* lifetime_points and current_level are what the student had when the call
\* started (the defaults when no row was stored) and the PointHistory is
\* the one it started from plus one entry of 0 points.
C18_ZeroDelta ==
    \A p \in Procs :
        (/\ op[p] = "award_points" /\ amount[p] = 0
         /\ pc[p] \in {"ba_select", "ba_eval", "done"})
        => LET before == IF pre[p].points = NoRow
                         THEN DefaultPoints ELSE pre[p].points
           IN  /\ points # NoRow
               /\ points.total_points = before.total_points
               /\ points.lifetime_points = before.lifetime_points
               /\ points.current_level = before.current_level
               /\ pointHistory = Append(pre[p].history, 0)

\* a zero award has returned for a student who had points and a level
\* above 1
C18_Witness ==
    \E p \in Procs :
        /\ op[p] = "award_points" /\ amount[p] = 0 /\ pc[p] = "done"
        /\ pre[p].points # NoRow
        /\ pre[p].points.total_points > 0
        /\ pre[p].points.current_level > 1
        /\ points = pre[p].points
        /\ Len(pointHistory) = Len(pre[p].history) + 1
        /\ pointHistory[Len(pointHistory)] = 0

----------------------------------------------------------------------------
(* AnalyticsEngine: the period of an aggregation *)

Periods == {"daily", "weekly", "monthly"}

\* anchor dates: every day of these years
AnchorYears == {1, 1900, 2000, 2023, 2024, 9999}

AnchorDates == UNION {Ord(y, 1, 1)..Ord(y, 12, 31) : y \in AnchorYears}

\* date arithmetic left the range of datetime.date
Overflow == [raised |-> TRUE, start_date |-> NoDate, end_date |-> NoDate]

DateRange(start, end) ==
    [raised |-> FALSE, start_date |-> start, end_date |-> end]

\* the month ends three days after its 28th
get_date_range_plus3(period, target_date) ==
    IF period = "daily"
    THEN DateRange(target_date, target_date)
    ELSE IF period = "weekly"
    THEN LET start == target_date - Weekday(target_date) IN
         IF start < MinOrd \/ start + 6 > MaxOrd
         THEN Overflow
         ELSE DateRange(start, start + 6)
    ELSE LET start == Ord(YearOf(target_date), MonthOf(target_date), 1)
             next_month ==
                 Ord(YearOf(target_date), MonthOf(target_date), 28) + 3
         IN  IF next_month > MaxOrd
             THEN Overflow
             ELSE DateRange(start, next_month - DayOf(next_month))

\* AnalyticsEngine._get_date_range, and the same lines of aggregate_analytics
get_date_range(period, target_date) ==
    IF period = "daily"
    THEN DateRange(target_date, target_date)
    ELSE IF period = "weekly"
    THEN LET start == target_date - Weekday(target_date) IN
         IF start < MinOrd \/ start + 6 > MaxOrd
         THEN Overflow
         ELSE DateRange(start, start + 6)
    ELSE LET start == Ord(YearOf(target_date), MonthOf(target_date), 1)
             next_month ==
                 Ord(YearOf(target_date), MonthOf(target_date), 28) + 4
         IN  IF next_month > MaxOrd
             THEN Overflow
             ELSE DateRange(start, next_month - DayOf(next_month))

\* _get_date_range is called with a period and an anchor date
CallGetDateRange ==
    /\ calc = NoCall
    /\ \E period \in Periods : \E target_date \in AnchorDates :
           calc' = [fn |-> "_get_date_range", period |-> period,
                    target_date |-> target_date,
                    out |-> get_date_range(period, target_date)]
    /\ UNCHANGED <<today, mastered24h, dbVars, reqVars, activeDays, concepts,
                   awardedAt, awards, earnedAt, analytics>>

\* the caller has taken the value
CalcReturn ==
    /\ calc # NoCall
    /\ calc' = NoCall
    /\ UNCHANGED <<today, mastered24h, dbVars, reqVars, activeDays, concepts,
                   awardedAt, awards, earnedAt, analytics>>

NextDates == CallGetDateRange \/ CalcReturn

SpecDates == Init /\ [][NextDates]_vars

\* range r is the Monday-to-Sunday week that holds date d
IsWeekOf(r, d) ==
    /\ ~r.raised
    /\ r.end_date - r.start_date + 1 = 7
    /\ Weekday(r.start_date) = 0
    /\ r.start_date <= d /\ d <= r.end_date

\* range r runs from the first to the last day of the month of date d
IsMonthOf(r, d) ==
    /\ ~r.raised
    /\ YearOf(r.start_date) = YearOf(d) /\ MonthOf(r.start_date) = MonthOf(d)
    /\ DayOf(r.start_date) = 1
    /\ YearOf(r.end_date) = YearOf(d) /\ MonthOf(r.end_date) = MonthOf(d)
    /\ DayOf(r.end_date) = days_in_month(YearOf(d), MonthOf(d))

----------------------------------------------------------------------------
(* Storage failures during the badge evaluation *)

\* the select of the active badges raises: check_and_award_badges has no
\* handler around it, and neither have the endpoints that call it
BaSelectFail(p) ==
    /\ pc[p] = "ba_select"
    /\ Raise(p, "check_and_award_badges")
    /\ UNCHANGED <<args, failed, auxVars,
                   today, mastered24h, dbVars, activeDays, op, event, amount,
                   badges, bidx, earned, was, obj, created, result, pre>>

\* the criteria hold and the select of _award_badge for an existing
\* UserBadge raises: it is outside the try block and the exception leaves
\* check_and_award_badges
BaLookupFail(p) ==
    /\ pc[p] = "ba_eval"
    /\ check_badge_criteria(badges[p][bidx[p]], event[p], mastered24h)
    /\ Raise(p, "check_and_award_badges")
    /\ failed' = [failed EXCEPT ![p] = @ \cup {badges[p][bidx[p]].id}]
    /\ UNCHANGED <<args, auxVars,
                   today, mastered24h, dbVars, activeDays, op, event, amount,
                   badges, bidx, earned, was, obj, created, result, pre>>

\* the commit of _award_badge raises: the except clause rolls back and
\* returns None, and the loop goes on
BaCommitFail(p) ==
    /\ pc[p] = "ba_commit"
    /\ failed' = [failed EXCEPT ![p] = @ \cup {badges[p][bidx[p]].id}]
    /\ NextBadge(p, AppendEarned(earned[p], badges[p][bidx[p]].id, FALSE))
    /\ UNCHANGED <<args, auxVars,
                   today, mastered24h, dbVars, activeDays, op, event, amount,
                   badges, was, obj, created, err, pre>>

NextBadgeFail ==
    \E p \in Procs :
        StartCheckAndAward(p) \/ BaSelect(p) \/ BaEval(p) \/ BaCommit(p)
        \/ BaLookupFail(p) \/ BaCommitFail(p) \/ Return(p)

SpecBadgeFail == Init /\ [][NextBadgeFail]_vars

\* C15: when storage fails while one badge is being awarded, the
\* check_and_award_badges call does not raise, and once it has returned,
\* every badge the event qualifies for that the student did not hold and
\* whose own award did not fail has its UserBadge row and is reported.
C15_AwardFailureContained ==
    \A p \in Procs :
        op[p] = "check_and_award_badges"
        => /\ pc[p] # "raised"
           /\ pc[p] = "done"
              => \A b \in BadgeIds :
                     (/\ Qualifies(p, b)
                      /\ b \notin pre[p].held
                      /\ b \notin failed[p])
                     => (b \in Range(earned[p]) /\ userBadges[b] = 1)

\* the points and streak endpoints with a badge evaluation whose first
\* select can fail
NextBestEffort ==
    \E p \in Procs :
        StartAwardPoints(p) \/ ApSelect(p) \/ ApFlush(p) \/ ApCommit(p)
        \/ StartUpdateStreak(p) \/ UsSelect(p) \/ UsCommit(p)
        \/ BaSelect(p) \/ BaSelectFail(p) \/ BaEval(p) \/ Return(p)

SpecBestEffort == Init /\ [][NextBestEffort]_vars

\* C16: when the badge evaluation of an award_points or update_streak
\* request has failed at a storage step, the points or streak the request
\* committed are still stored and the request has not raised: it returns
\* the result of the primary operation.
C16_BadgeFailureContained ==
    \A p \in Procs :
        (/\ op[p] \in {"award_points", "update_streak"}
         /\ err[p] = "check_and_award_badges")
        => /\ pc[p] # "raised"
           /\ op[p] = "award_points"
              => (points # NoRow
                  /\ pointHistory = Append(pre[p].history, amount[p]))
           /\ op[p] = "update_streak"
              => (streak # NoRow /\ streak.last_activity_date = today)

----------------------------------------------------------------------------
(* AnalyticsEngine: the aggregation of one student.  The queries read the  *)
(* columns created_at, completed_at, mastered_at, last_attempted_at,       *)
(* attempts and current_score of ConceptProgress, awarded_at of            *)
(* PointHistory and earned_at of UserBadge.  PointHistory and UserBadge    *)
(* rows are those of student "s1"; ConceptProgress and Analytics rows      *)
(* carry their student.                                                    *)

MaxAnalytics == 2

Students == {"s1", "s2"}

\* the student whose Points, PointHistory, UserBadge and Streak rows the
\* model follows
Student == "s1"

\* current_score holding NULL
NoScore == -1

ConceptRow(s, c, st, cr, co, ma, la, at, sc) ==
    [student_id |-> s, concept_id |-> c, status |-> st, created_at |-> cr,
     completed_at |-> co, mastered_at |-> ma, last_attempted_at |-> la,
     attempts |-> at, current_score |-> sc]

\* the datetime `half` ticks into day `day` of the model
At(day, half) == Midnight(Epoch + day) + half

\* stored ConceptProgress rows the analytics specifications start from
ConceptsA ==
    { ConceptRow("s1", "c1", "mastered", At(0, 1), At(1, 1), At(1, 1),
                 At(1, 1), 2, 90),
      ConceptRow("s1", "c2", "completed", At(1, 1), At(2, 0), NoDate,
                 At(2, 0), 1, 70),
      ConceptRow("s1", "c3", "in_progress", At(2, 1), NoDate, NoDate,
                 At(2, 1), 3, NoScore),
      ConceptRow("s2", "c1", "completed", At(0, 1), At(0, 1), NoDate,
                 At(0, 1), 1, 50) }

ConceptsB ==
    { ConceptRow("s1", "c4", "completed", At(-40, 1), At(-35, 1), NoDate,
                 At(-35, 1), 4, 60),
      ConceptRow("s2", "c2", "not_started", At(1, 0), NoDate, NoDate,
                 NoDate, 0, NoScore) }

ConceptData == {{}, ConceptsA, ConceptsB, ConceptsA \cup ConceptsB}

\* stored Points, PointHistory and UserBadge rows they start from: none, or
\* two awards and the Subject Master badge
GamificationData ==
    { [points |-> NoRow, history |-> << >>, awarded_at |-> << >>,
       earned_at |-> [b \in BadgeIds |-> NoDate]],
      [points |-> [total_points |-> 400, current_level |-> 3,
                   points_to_next_level |-> 500, lifetime_points |-> 400],
       history |-> <<100, 300>>, awarded_at |-> <<At(0, 1), At(2, 0)>>,
       earned_at |-> [b \in BadgeIds |-> IF b = 3 THEN At(1, 1) ELSE NoDate]] }

\* the count of the Quick Learner query on rows `rows` at instant `now`
MasteredLastDay(rows, now) ==
    Cardinality({r \in rows : /\ r.student_id = Student
                              /\ r.status = "mastered"
                              /\ r.mastered_at # NoDate
                              /\ r.mastered_at >= now - 2})

\* the state on day 2 of the model, with stored rows and no request
InitAnalytics ==
    /\ today = 2
    /\ concepts \in ConceptData
    /\ mastered24h = MasteredLastDay(concepts, At(2, 1))
    /\ \E g \in GamificationData :
           /\ points = g.points
           /\ pointHistory = g.history
           /\ awardedAt = g.awarded_at
           /\ earnedAt = g.earned_at
           /\ userBadges = [b \in BadgeIds |->
                               IF g.earned_at[b] = NoDate THEN 0 ELSE 1]
    /\ streak = NoRow
    /\ pc = [p \in Procs |-> "idle"]
    /\ op = [p \in Procs |-> "none"]
    /\ event = [p \in Procs |-> NoEvent]
    /\ amount = [p \in Procs |-> 0]
    /\ badges = [p \in Procs |-> << >>]
    /\ bidx = [p \in Procs |-> 0]
    /\ earned = [p \in Procs |-> << >>]
    /\ was = [p \in Procs |-> NoRow]
    /\ obj = [p \in Procs |-> NoRow]
    /\ created = [p \in Procs |-> FALSE]
    /\ result = [p \in Procs |-> NoResult]
    /\ err = [p \in Procs |-> "none"]
    /\ pre = [p \in Procs |-> NoSnapshot]
    /\ activeDays = {}
    /\ args = [p \in Procs |-> NoArgs]
    /\ failed = [p \in Procs |-> {}]
    /\ analytics = EmptyBag
    /\ calc = NoCall
    /\ awards = Len(pointHistory)

\* a request that takes arguments `a` arrives
BeginRequest(p, o, at, a) ==
    /\ pc[p] = "idle"
    /\ pc' = [pc EXCEPT ![p] = at]
    /\ op' = [op EXCEPT ![p] = o]
    /\ args' = [args EXCEPT ![p] = a]
    /\ pre' = [pre EXCEPT ![p] = Snapshot]
    /\ UNCHANGED <<event, amount, badges, bidx, earned, was, obj, created,
                   result, err, failed>>

\* column.between(start_date, end_date + timedelta(days=1)): BETWEEN takes
\* both of its ends, and a date compares as its midnight; NULL is no match
InRange(ts, start_date, end_date) ==
    /\ ts # NoDate
    /\ Midnight(start_date) <= ts
    /\ ts <= Midnight(end_date + 1)

RECURSIVE GCD(_, _)
GCD(a, b) == IF b = 0 THEN a ELSE GCD(b, a % b)

\* the float n / d for n >= 0 and d > 0, as a fraction in lowest terms
Ratio(n, d) == [num |-> n \div GCD(n, d), den |-> d \div GCD(n, d)]

\* func.sum(ConceptProgress.attempts * 300) over `rows`, None reading as 0
RECURSIVE SumAttempts(_)
SumAttempts(rows) ==
    IF rows = {} THEN 0
    ELSE LET r == CHOOSE x \in rows : TRUE
         IN  r.attempts * 300 + SumAttempts(rows \ {r})

RECURSIVE SumScores(_)
SumScores(rows) ==
    IF rows = {} THEN 0
    ELSE LET r == CHOOSE x \in rows : TRUE
         IN  r.current_score + SumScores(rows \ {r})

\* func.avg(ConceptProgress.current_score) over `rows`, None reading as 0.0
AvgScore(rows) ==
    LET scored == {r \in rows : r.current_score # NoScore}
    IN  IF scored = {} THEN Ratio(0, 1)
        ELSE Ratio(SumScores(scored), Cardinality(scored))

RowsOf(student) == {r \in concepts : r.student_id = student}

\* AnalyticsEngine._get_concept_stats
get_concept_stats(student, start_date, end_date) ==
    [concepts_started |->
         Cardinality({r \in RowsOf(student) :
                          InRange(r.created_at, start_date, end_date)}),
     concepts_completed |->
         Cardinality({r \in RowsOf(student) :
                          /\ r.status = "completed"
                          /\ InRange(r.completed_at, start_date, end_date)}),
     concepts_mastered |->
         Cardinality({r \in RowsOf(student) :
                          /\ r.status = "mastered"
                          /\ InRange(r.mastered_at, start_date, end_date)})]

\* AnalyticsEngine._calculate_time_spent
calculate_time_spent(student, start_date, end_date) ==
    SumAttempts({r \in RowsOf(student) :
                     InRange(r.last_attempted_at, start_date, end_date)})

\* AnalyticsEngine._calculate_average_score
calculate_average_score(student, start_date, end_date) ==
    AvgScore({r \in RowsOf(student) :
                  InRange(r.last_attempted_at, start_date, end_date)})

\* AnalyticsEngine._get_points_earned
get_points_earned(student, start_date, end_date) ==
    IF student # Student THEN 0
    ELSE SumSeq([i \in 1..Len(pointHistory) |->
                    IF InRange(awardedAt[i], start_date, end_date)
                    THEN pointHistory[i] ELSE 0])

\* AnalyticsEngine._get_badges_earned
get_badges_earned(student, start_date, end_date) ==
    IF student # Student THEN 0
    ELSE Cardinality({b \in BadgeIds :
                          /\ userBadges[b] > 0
                          /\ InRange(earnedAt[b], start_date, end_date)})

\* the `stats` calculate_student_analytics hands to _save_analytics
StudentStats(student, period, target_date) ==
    LET range == get_date_range(period, target_date)
        cs == get_concept_stats(student, range.start_date, range.end_date)
    IN  [concepts_started |-> cs.concepts_started,
         concepts_completed |-> cs.concepts_completed,
         concepts_mastered |-> cs.concepts_mastered,
         time_spent |->
             calculate_time_spent(student, range.start_date, range.end_date),
         average_score |->
             calculate_average_score(student, range.start_date,
                                     range.end_date),
         points_earned |->
             get_points_earned(student, range.start_date, range.end_date),
         badges_earned |->
             get_badges_earned(student, range.start_date, range.end_date)]

StatFields ==
    {"concepts_started", "concepts_completed", "concepts_mastered",
     "time_spent", "average_score", "points_earned", "badges_earned"}

\* Analytics(student_id=..., period=..., period_date=..., **stats)
AnalyticsRow(student, period, period_date, stats) ==
    [student_id |-> student, period |-> period, period_date |-> period_date,
     concepts_started |-> stats.concepts_started,
     concepts_completed |-> stats.concepts_completed,
     concepts_mastered |-> stats.concepts_mastered,
     time_spent |-> stats.time_spent,
     average_score |-> stats.average_score,
     points_earned |-> stats.points_earned,
     badges_earned |-> stats.badges_earned]

\* the derived fields of an Analytics row
StatsOfRow(row) == [f \in StatFields |-> row[f]]

\* the Analytics rows of table `table` with the key of the select
AnalyticsOf(table, student, period, period_date) ==
    {r \in BagToSet(table) : /\ r.student_id = student
                             /\ r.period = period
                             /\ r.period_date = period_date}

\* the number of Analytics rows of `table` with that key
AnalyticsCount(table, student, period, period_date) ==
    BagCardinality([r \in AnalyticsOf(table, student, period, period_date)
                       |-> CopiesIn(r, table)])

\* the update adds the new numbers to the stored ones
AccumulateStats(row, stats) ==
    [f \in DOMAIN row |->
        IF f \in StatFields \ {"average_score"} THEN row[f] + stats[f]
        ELSE IF f = "average_score" THEN stats[f]
        ELSE row[f]]

\* `for key, value in stats.items(): setattr(analytics, key, value)`
ApplyStats(row, stats) ==
    [f \in DOMAIN row |-> IF f \in DOMAIN stats THEN stats[f] ELSE row[f]]

\* the anchor dates of the aggregation requests: yesterday and today
TargetDates == {TodayDate - 1, TodayDate}

\* the arguments of calculate_student_analytics; stats is filled in by the
\* queries
AnalyticsArgs(student, period, target_date) ==
    [student_id |-> student, period |-> period, target_date |-> target_date,
     stats |-> NoRow]

\* calculate_student_analytics is called, one call at a time
StartAnalytics(p) ==
    /\ Idle
    /\ \E student \in Students : \E period \in Periods :
       \E target_date \in TargetDates :
           /\ \/ BagCardinality(analytics) < MaxAnalytics
              \/ AnalyticsOf(analytics, student, period, target_date) # {}
           /\ BeginRequest(p, "calculate_student_analytics", "an_stats",
                           AnalyticsArgs(student, period, target_date))
    /\ UNCHANGED <<today, mastered24h, dbVars, activeDays, auxVars>>

\* the five aggregate selects of calculate_student_analytics
AnStats(p) ==
    /\ pc[p] = "an_stats"
    /\ args' = [args EXCEPT ![p].stats =
                   StudentStats(args[p].student_id, args[p].period,
                                args[p].target_date)]
    /\ pc' = [pc EXCEPT ![p] = "an_select"]
    /\ UNCHANGED <<failed, auxVars,
                   today, mastered24h, dbVars, activeDays, op, event, amount,
                   badges, bidx, earned, was, obj, created, result, err, pre>>

\* _save_analytics: the select of the existing record; scalar_one_or_none
\* raises MultipleResultsFound on more than one row
AnSelect(p) ==
    /\ pc[p] = "an_select"
    /\ LET a == args[p]
           rows == AnalyticsOf(analytics, a.student_id, a.period,
                               a.target_date)
           n == AnalyticsCount(analytics, a.student_id, a.period,
                               a.target_date)
       IN  IF n > 1
           THEN /\ Raise(p, "calculate_student_analytics")
                /\ UNCHANGED <<was, obj, created>>
           ELSE IF n = 1
           THEN /\ was' = [was EXCEPT ![p] = CHOOSE r \in rows : TRUE]
                /\ obj' = [obj EXCEPT ![p] =
                       ApplyStats(CHOOSE r \in rows : TRUE, a.stats)]
                /\ pc' = [pc EXCEPT ![p] = "an_commit"]
                /\ UNCHANGED <<created, err>>
           ELSE /\ created' = [created EXCEPT ![p] = TRUE]
                /\ obj' = [obj EXCEPT ![p] =
                       AnalyticsRow(a.student_id, a.period, a.target_date,
                                    a.stats)]
                /\ pc' = [pc EXCEPT ![p] = "an_commit"]
                /\ UNCHANGED <<was, err>>
    /\ UNCHANGED <<args, failed, auxVars,
                   today, mastered24h, dbVars, activeDays, op, event, amount,
                   badges, bidx, earned, result, pre>>

\* _save_analytics: db.commit() sends the INSERT or the UPDATE of the row
\* the session loaded; db.refresh(); the stats are returned with the key
AnCommit(p) ==
    /\ pc[p] = "an_commit"
    /\ IF created[p]
       THEN analytics' = analytics (+) SetToBag({obj[p]})
       ELSE \E r \in AnalyticsOf(analytics, args[p].student_id,
                                 args[p].period, args[p].target_date) :
                analytics' = (analytics (-) SetToBag({r}))
                             (+) SetToBag({MergeDirty(r, was[p], obj[p])})
    /\ result' = [result EXCEPT ![p] =
           [kind |-> "analytics", student_id |-> args[p].student_id,
            period |-> args[p].period, period_date |-> args[p].target_date,
            stats |-> args[p].stats]]
    /\ pc' = [pc EXCEPT ![p] = "done"]
    /\ UNCHANGED <<args, failed, concepts, awardedAt, awards, earnedAt, calc,
                   today, mastered24h, dbVars, activeDays, op, event, amount,
                   badges, bidx, earned, was, obj, created, err, pre>>

NextAnalytics ==
    \E p \in Procs :
        StartAnalytics(p) \/ AnStats(p) \/ AnSelect(p) \/ AnCommit(p)
        \/ Return(p)

SpecAnalytics == InitAnalytics /\ [][NextAnalytics]_vars

\* C13: when a calculate_student_analytics call has returned, with only
\* such calls running one at a time on unchanged data, one Analytics row
\* has its key, the derived fields of that row are the numbers a fresh
\* computation gives, the call returned those numbers, and they are the
\* numbers an earlier call for the key stored.
C13_Idempotent ==
    \A p \in Procs :
        (op[p] = "calculate_student_analytics" /\ pc[p] = "done")
        => LET a == args[p]
               fresh == StudentStats(a.student_id, a.period, a.target_date)
           IN  /\ AnalyticsCount(analytics, a.student_id, a.period,
                                 a.target_date) = 1
               /\ \A r \in AnalyticsOf(analytics, a.student_id, a.period,
                                       a.target_date) :
                      StatsOfRow(r) = fresh
               /\ result[p].stats = fresh
               /\ \A r \in AnalyticsOf(pre[p].analytics, a.student_id,
                                       a.period, a.target_date) :
                      StatsOfRow(r) = result[p].stats

\* the second call for a key with concepts, points and a badge in its
\* period has returned
C13_Witness ==
    \E p \in Procs :
        /\ op[p] = "calculate_student_analytics" /\ pc[p] = "done"
        /\ AnalyticsOf(pre[p].analytics, args[p].student_id, args[p].period,
                       args[p].target_date) # {}
        /\ result[p].stats.concepts_started > 0
        /\ result[p].stats.points_earned > 0
        /\ result[p].stats.badges_earned > 0
        /\ AnalyticsCount(analytics, args[p].student_id, args[p].period,
                          args[p].target_date) = 1

----------------------------------------------------------------------------
(* Concurrent aggregations *)

\* calculate_student_analytics calls that have not committed or failed yet
AnalyticsInFlight ==
    {q \in Procs : op[q] = "calculate_student_analytics"
                   /\ pc[q] \in {"an_stats", "an_select", "an_commit"}}

\* calculate_student_analytics is called while other calls may be running
StartAnalyticsConcurrent(p) ==
    /\ \E student \in Students : \E period \in Periods :
       \E target_date \in TargetDates :
           /\ \/ BagCardinality(analytics) + Cardinality(AnalyticsInFlight)
                     < MaxAnalytics
              \/ AnalyticsOf(analytics, student, period, target_date) # {}
           /\ BeginRequest(p, "calculate_student_analytics", "an_stats",
                           AnalyticsArgs(student, period, target_date))
    /\ UNCHANGED <<today, mastered24h, dbVars, activeDays, auxVars>>

NextAnalyticsConc ==
    \E p \in Procs :
        StartAnalyticsConcurrent(p) \/ AnStats(p) \/ AnSelect(p)
        \/ AnCommit(p) \/ Return(p)

SpecAnalyticsConc == InitAnalytics /\ [][NextAnalyticsConc]_vars

\* C14: once the calculate_student_analytics calls that ran concurrently
\* have ended, no (student, period, period_date) has more than one
\* Analytics row, and no calculate_student_analytics call raises.
C14_OneRecordPerKey ==
    /\ (\A p \in Procs : pc[p] \in {"idle", "done", "raised"})
       => \A student \in Students : \A period \in Periods :
          \A period_date \in TargetDates :
              AnalyticsCount(analytics, student, period, period_date) <= 1
    /\ \A p \in Procs :
           op[p] = "calculate_student_analytics" => pc[p] # "raised"

----------------------------------------------------------------------------
(* AnalyticsEngine: velocity and the completion estimate *)

VelocityWindows == {1, 30}
RemainingConcepts == {0, 1, 5}

\* Python's a / b for a >= 0 and b >= 0: ZeroDivisionError when b is 0
TrueDiv(a, b) ==
    IF b = 0
    THEN [zero_division |-> TRUE, value |-> Ratio(0, 1)]
    ELSE [zero_division |-> FALSE, value |-> Ratio(a, b)]

\* the rows the query of calculate_learning_velocity counts
VelocityRows(student, days) ==
    {r \in RowsOf(student) :
         /\ r.status \in {"completed", "mastered"}
         /\ r.last_attempted_at # NoDate
         /\ r.last_attempted_at >= Now - 2 * days}

\* count(distinct(date(last_attempted_at))) over `rows`
ActiveDays(rows) ==
    Cardinality({DateOfTick(r.last_attempted_at) :
                     r \in {x \in rows : x.last_attempted_at # NoDate}})

\* AnalyticsEngine.calculate_learning_velocity
calculate_learning_velocity(student, days) ==
    IF ActiveDays(VelocityRows(student, days)) > 0
    THEN TrueDiv(Cardinality(VelocityRows(student, days)),
                 ActiveDays(VelocityRows(student, days)))
    ELSE [zero_division |-> FALSE, value |-> Ratio(0, 1)]

\* AnalyticsEngine._calculate_learning_consistency as the band
\* predict_completion_time reads from it
ConsistencyBand(student) ==
    LET rows == {r \in RowsOf(student) : r.last_attempted_at # NoDate}
        last == CHOOSE t \in {r.last_attempted_at : r \in rows} :
                    \A r \in rows : r.last_attempted_at <= t
        first == CHOOSE t \in {r.created_at : r \in RowsOf(student)} :
                     \A r \in RowsOf(student) : t <= r.created_at
        total_days == IF rows = {} THEN 0
                      ELSE DateOfTick(last) - DateOfTick(first)
    IN  IF total_days <= 0 THEN "low"
        ELSE IF 5 * ActiveDays(rows) > 4 * total_days THEN "high"
        ELSE IF 2 * ActiveDays(rows) > total_days THEN "medium"
        ELSE "low"

NoEstimate ==
    [zero_division |-> FALSE, has_estimate |-> FALSE, estimated_days |-> 0,
     confidence |-> "low"]

\* the guard lets a velocity of 0 through
predict_completion_time_negative_only(student, remaining_concepts) ==
    LET velocity == calculate_learning_velocity(student, 30).value
        estimated_days == TrueDiv(remaining_concepts * velocity.den,
                                  velocity.num)
    IN  IF velocity.num < 0
        THEN NoEstimate
        ELSE [zero_division |-> estimated_days.zero_division,
              has_estimate |-> ~estimated_days.zero_division,
              estimated_days |->
                  estimated_days.value.num \div estimated_days.value.den,
              confidence |-> ConsistencyBand(student)]

\* AnalyticsEngine.predict_completion_time
predict_completion_time(student, remaining_concepts) ==
    LET velocity == calculate_learning_velocity(student, 30).value
        estimated_days == TrueDiv(remaining_concepts * velocity.den,
                                  velocity.num)
    IN  IF velocity.num <= 0
        THEN NoEstimate
        ELSE [zero_division |-> estimated_days.zero_division,
              has_estimate |-> ~estimated_days.zero_division,
              estimated_days |->
                  estimated_days.value.num \div estimated_days.value.den,
              confidence |-> ConsistencyBand(student)]

\* calculate_learning_velocity is called on the stored rows
CallVelocity ==
    /\ calc = NoCall
    /\ \E student \in Students : \E days \in VelocityWindows :
           calc' = [fn |-> "calculate_learning_velocity",
                    student_id |-> student, days |-> days,
                    active_days |-> ActiveDays(VelocityRows(student, days)),
                    out |-> calculate_learning_velocity(student, days)]
    /\ UNCHANGED <<today, mastered24h, dbVars, reqVars, activeDays, concepts,
                   awardedAt, awards, earnedAt, analytics>>

\* predict_completion_time is called on the stored rows
CallPredict ==
    /\ calc = NoCall
    /\ \E student \in Students : \E remaining \in RemainingConcepts :
           calc' = [fn |-> "predict_completion_time",
                    student_id |-> student, remaining_concepts |-> remaining,
                    velocity |-> calculate_learning_velocity(student, 30),
                    out |-> predict_completion_time(student, remaining)]
    /\ UNCHANGED <<today, mastered24h, dbVars, reqVars, activeDays, concepts,
                   awardedAt, awards, earnedAt, analytics>>

NextPredict == CallVelocity \/ CallPredict \/ CalcReturn \/ AdvanceDay

SpecPredict == InitAnalytics /\ [][NextPredict]_vars

\* C19: calculate_learning_velocity returns 0.0 when the window has no
\* active day, predict_completion_time returns no estimate with confidence
\* "low" when the velocity is <= 0, and neither divides by zero.
C19_NoZeroDivision ==
    /\ calc.fn = "calculate_learning_velocity"
       => /\ ~calc.out.zero_division
          /\ calc.active_days = 0 => calc.out.value = Ratio(0, 1)
    /\ calc.fn = "predict_completion_time"
       => /\ ~calc.velocity.zero_division
          /\ ~calc.out.zero_division
          /\ calc.velocity.value.num <= 0
             => (~calc.out.has_estimate /\ calc.out.confidence = "low")

\* a student with rows, none of them completed in the last 30 days, has
\* been given no estimate
C19_Witness ==
    /\ calc.fn = "predict_completion_time"
    /\ RowsOf(calc.student_id) # {}
    /\ calc.remaining_concepts > 0
    /\ calc.velocity.value.num = 0
    /\ ~calc.out.has_estimate
    /\ calc.out.confidence = "low"

----------------------------------------------------------------------------
(* The batch endpoints: bulk_update_progress and aggregate_analytics *)

\* the bodies of the bulk requests: lists of (student, concept, status)
BulkInputs ==
    { << [student_id |-> "s1", concept_id |-> "c1", status |-> "completed"],
         [student_id |-> "s2", concept_id |-> "c9", status |-> "in_progress"] >>,
      << [student_id |-> "s1", concept_id |-> "c9", status |-> "mastered"],
         [student_id |-> "s2", concept_id |-> "c1", status |-> "mastered"] >> }

\* POST /progress/bulk-update
StartBulkUpdate(p) ==
    /\ Idle
    /\ \E updates \in BulkInputs :
           BeginRequest(p, "bulk_update_progress", "bu_select",
                        [updates |-> updates, at |-> 1, writes |-> << >>])
    /\ UNCHANGED <<today, mastered24h, dbVars, activeDays, auxVars>>

\* one iteration of the loop: the select of the existing row, then setattr
\* on it or db.add() of a new row; after the last one the commit is next
BuSelect(p) ==
    /\ pc[p] = "bu_select"
    /\ LET update == args[p].updates[args[p].at]
           found == {r \in concepts :
                         /\ r.student_id = update.student_id
                         /\ r.concept_id = update.concept_id}
           write ==
               IF found = {}
               THEN [created |-> TRUE, was |-> NoRow,
                     now |-> ConceptRow(update.student_id, update.concept_id,
                                        update.status, Now, NoDate, NoDate,
                                        NoDate, 0, NoScore)]
               ELSE [created |-> FALSE, was |-> CHOOSE r \in found : TRUE,
                     now |-> [(CHOOSE r \in found : TRUE)
                                  EXCEPT !.status = update.status]]
       IN  args' = [args EXCEPT ![p].writes = Append(@, write),
                                ![p].at = @ + 1]
    /\ pc' = [pc EXCEPT ![p] =
                 IF args[p].at < Len(args[p].updates)
                 THEN "bu_select" ELSE "bu_commit"]
    /\ UNCHANGED <<failed, auxVars,
                   today, mastered24h, dbVars, activeDays, op, event, amount,
                   badges, bidx, earned, was, obj, created, result, err, pre>>

\* the select of one update raises: the except clause of the loop records
\* the error and the loop goes on
BuSelectFail(p) ==
    /\ pc[p] = "bu_select"
    /\ failed' = [failed EXCEPT ![p] = @ \cup {args[p].at}]
    /\ args' = [args EXCEPT ![p].at = @ + 1]
    /\ pc' = [pc EXCEPT ![p] =
                 IF args[p].at < Len(args[p].updates)
                 THEN "bu_select" ELSE "bu_commit"]
    /\ UNCHANGED <<auxVars,
                   today, mastered24h, dbVars, activeDays, op, event, amount,
                   badges, bidx, earned, was, obj, created, result, err, pre>>

\* db.commit(): the pending INSERTs and UPDATEs of the batch commit together
BuCommit(p) ==
    /\ pc[p] = "bu_commit"
    /\ LET writes == Range(args[p].writes) IN
       concepts' = (concepts \ {w.was : w \in {x \in writes : ~x.created}})
                   \cup {w.now : w \in writes}
    /\ result' = [result EXCEPT ![p] =
           [kind |-> "bulk", updated_count |-> Len(args[p].writes),
            errors |-> failed[p]]]
    /\ pc' = [pc EXCEPT ![p] = "done"]
    /\ UNCHANGED <<args, failed, awardedAt, awards, earnedAt, analytics, calc,
                   today, mastered24h, dbVars, activeDays, op, event, amount,
                   badges, bidx, earned, was, obj, created, err, pre>>

\* the flush of one pending write fails inside db.commit(): the handler
\* rolls the whole session back and raises HTTP 500
BuCommitFail(p) ==
    /\ pc[p] = "bu_commit"
    /\ \E i \in 1..Len(args[p].updates) :
           /\ i \notin failed[p]
           /\ failed' = [failed EXCEPT ![p] = @ \cup {i}]
    /\ Raise(p, "bulk_update_progress")
    /\ UNCHANGED <<args, auxVars,
                   today, mastered24h, dbVars, activeDays, op, event, amount,
                   badges, bidx, earned, was, obj, created, result, pre>>

\* the numbers aggregate_analytics computes for one student: the average
\* score is taken over all rows of the student, and no points or badges
RouterStats(student, period, target_date) ==
    LET range == get_date_range(period, target_date)
        cs == get_concept_stats(student, range.start_date, range.end_date)
    IN  [concepts_started |-> cs.concepts_started,
         concepts_completed |-> cs.concepts_completed,
         concepts_mastered |-> cs.concepts_mastered,
         average_score |-> AvgScore(RowsOf(student)),
         time_spent |->
             calculate_time_spent(student, range.start_date, range.end_date)]

\* POST /analytics/aggregate; every student of the model has a Progress row
StartAggregate(p) ==
    /\ Idle
    /\ \E period \in Periods : \E target_date \in TargetDates :
           /\ \/ analytics = EmptyBag
              \/ \A student \in Students :
                     AnalyticsOf(analytics, student, period, target_date) # {}
           /\ BeginRequest(p, "aggregate_analytics", "ag_students",
                  [period |-> period, target_date |-> target_date,
                   student_ids |-> << >>, at |-> 1, stats |-> NoRow,
                   writes |-> << >>])
    /\ UNCHANGED <<today, mastered24h, dbVars, activeDays, auxVars>>

\* select(Progress.student_id).distinct()
AgStudents(p) ==
    /\ pc[p] = "ag_students"
    /\ args' = [args EXCEPT ![p].student_ids = <<"s1", "s2">>]
    /\ pc' = [pc EXCEPT ![p] = "ag_stats"]
    /\ UNCHANGED <<failed, auxVars,
                   today, mastered24h, dbVars, activeDays, op, event, amount,
                   badges, bidx, earned, was, obj, created, result, err, pre>>

\* the concept_stats and time_spent selects for the student the loop is at
AgStats(p) ==
    /\ pc[p] = "ag_stats"
    /\ args' = [args EXCEPT ![p].stats =
                   RouterStats(args[p].student_ids[args[p].at],
                               args[p].period, args[p].target_date)]
    /\ pc' = [pc EXCEPT ![p] = "ag_select"]
    /\ UNCHANGED <<failed, auxVars,
                   today, mastered24h, dbVars, activeDays, op, event, amount,
                   badges, bidx, earned, was, obj, created, result, err, pre>>

\* the select of the existing record, then the update of five fields or
\* db.add() of a new record; after the last student the commit is next
AgSelect(p) ==
    /\ pc[p] = "ag_select"
    /\ LET a == args[p]
           student == a.student_ids[a.at]
           rows == AnalyticsOf(analytics, student, a.period, a.target_date)
           write ==
               IF rows = {}
               THEN [created |-> TRUE, was |-> NoRow,
                     now |-> AnalyticsRow(student, a.period, a.target_date,
                                [f \in StatFields |->
                                    IF f \in DOMAIN a.stats
                                    THEN a.stats[f] ELSE 0])]
               ELSE [created |-> FALSE, was |-> CHOOSE r \in rows : TRUE,
                     now |-> ApplyStats(CHOOSE r \in rows : TRUE, a.stats)]
       IN  IF AnalyticsCount(analytics, student, a.period, a.target_date) > 1
           THEN /\ Raise(p, "aggregate_analytics")
                /\ args' = args
           ELSE /\ args' = [args EXCEPT ![p].writes = Append(@, write),
                                        ![p].at = @ + 1]
                /\ pc' = [pc EXCEPT ![p] =
                             IF a.at < Len(a.student_ids)
                             THEN "ag_stats" ELSE "ag_commit"]
                /\ err' = err
    /\ UNCHANGED <<failed, auxVars,
                   today, mastered24h, dbVars, activeDays, op, event, amount,
                   badges, bidx, earned, was, obj, created, result, pre>>

\* the single db.commit() after the loop
AgCommit(p) ==
    /\ pc[p] = "ag_commit"
    /\ LET writes == Range(args[p].writes) IN
       analytics' =
           (analytics (-) SetToBag({w.was : w \in {x \in writes : ~x.created}}))
           (+) SetToBag({w.now : w \in writes})
    /\ result' = [result EXCEPT ![p] =
           [kind |-> "aggregate", period |-> args[p].period,
            target_date |-> args[p].target_date,
            students_processed |-> Len(args[p].writes)]]
    /\ pc' = [pc EXCEPT ![p] = "done"]
    /\ UNCHANGED <<args, failed, concepts, awardedAt, awards, earnedAt, calc,
                   today, mastered24h, dbVars, activeDays, op, event, amount,
                   badges, bidx, earned, was, obj, created, err, pre>>

\* a select for one student raises: the loop has no handler, the exception
\* leaves the endpoint and the session is closed without a commit
AgFail(p) ==
    /\ pc[p] \in {"ag_stats", "ag_select"}
    /\ failed' = [failed EXCEPT ![p] = @ \cup {args[p].student_ids[args[p].at]}]
    /\ Raise(p, "aggregate_analytics")
    /\ UNCHANGED <<args, auxVars,
                   today, mastered24h, dbVars, activeDays, op, event, amount,
                   badges, bidx, earned, was, obj, created, result, pre>>

NextBatch ==
    \E p \in Procs :
        StartBulkUpdate(p) \/ BuSelect(p) \/ BuSelectFail(p) \/ BuCommit(p)
        \/ BuCommitFail(p) \/ StartAggregate(p) \/ AgStudents(p)
        \/ AgStats(p) \/ AgSelect(p) \/ AgCommit(p) \/ AgFail(p)
        \/ Return(p)

SpecBatch == InitAnalytics /\ [][NextBatch]_vars

\* C17: a bulk_update_progress or aggregate_analytics request on which the
\* processing of one entity failed does not raise; when it has returned,
\* every entity whose processing did not fail is stored (the ConceptProgress
\* row with the requested status, the Analytics row of the student) and, in
\* the bulk update, every failed entity is among the reported errors.
C17_BatchIsolation ==
    \A p \in Procs :
        /\ op[p] \in {"bulk_update_progress", "aggregate_analytics"}
           => pc[p] # "raised"
        /\ (op[p] = "bulk_update_progress" /\ pc[p] = "done")
           => \A i \in 1..Len(args[p].updates) :
                  IF i \in failed[p]
                  THEN i \in result[p].errors
                  ELSE \E r \in concepts :
                           /\ r.student_id = args[p].updates[i].student_id
                           /\ r.concept_id = args[p].updates[i].concept_id
                           /\ r.status = args[p].updates[i].status
        /\ (op[p] = "aggregate_analytics" /\ pc[p] = "done")
           => \A student \in Students \ failed[p] :
                  AnalyticsOf(analytics, student, args[p].period,
                              args[p].target_date) # {}

----------------------------------------------------------------------------
(* Points: the distance to the next level *)

\* C21: a stored Points row has
\* points_to_next_level = current_level^2 * 100 - total_points, for the
\* current_level it stores.
C21_PointsToNextLevel ==
    points # NoRow
    => points.points_to_next_level
           = points.current_level * points.current_level * 100
             - points.total_points

----------------------------------------------------------------------------
(* Points: what award_points returns *)

\* C22: at the commit of an award_points call, the level_up it returns is
\* true exactly when the level of the returned total,
\* floor(sqrt(total_points / 100)) + 1, is greater than the current_level
\* stored before the commit (1 when no row was stored), and the total_points
\* and current_level it returns are those of the row stored by the commit.
C22_LevelUpReturned ==
    [][\A p \in Procs :
          (pc[p] = "ap_commit" /\ pc'[p] = "ba_select")
          => /\ result'[p].level_up
                  = (ISqrt(result'[p].total_points \div 100) + 1
                         > PointsView.current_level)
             /\ points'.total_points = result'[p].total_points
             /\ points'.current_level = result'[p].current_level]_vars

----------------------------------------------------------------------------
(* The bounds of an aggregation period *)

\* C23: the counts and the points a calculate_student_analytics call returns
\* are those of the records whose timestamp t satisfies
\* start 00:00 <= t < 00:00 of the day after end: a record of any time of
\* the end date is counted and a record of exactly 00:00 of the next day is
\* not.
C23_HalfOpenPeriod ==
    \A p \in Procs :
        (op[p] = "calculate_student_analytics" /\ pc[p] = "done")
        => LET a == args[p]
               range == get_date_range(a.period, a.target_date)
               Within(ts) == /\ ts # NoDate
                             /\ Midnight(range.start_date) <= ts
                             /\ ts < Midnight(range.end_date + 1)
               rows == RowsOf(a.student_id)
           IN  /\ result[p].stats.concepts_started
                      = Cardinality({r \in rows : Within(r.created_at)})
               /\ result[p].stats.concepts_completed
                      = Cardinality({r \in rows :
                                         /\ r.status = "completed"
                                         /\ Within(r.completed_at)})
               /\ result[p].stats.concepts_mastered
                      = Cardinality({r \in rows :
                                         /\ r.status = "mastered"
                                         /\ Within(r.mastered_at)})
               /\ result[p].stats.points_earned
                      = IF a.student_id # Student THEN 0
                        ELSE SumSeq([i \in 1..Len(pointHistory) |->
                                        IF Within(awardedAt[i])
                                        THEN pointHistory[i] ELSE 0])

----------------------------------------------------------------------------
(* Re-aggregation of a stored Analytics record *)

\* POST /gamification/points/award with 100 points, between aggregations
StartAwardBetween(p) ==
    /\ Idle
    /\ Len(pointHistory) < MaxHistory
    /\ Begin(p, "award_points", "ap_select",
             Event("points_awarded", 0, FALSE, 0), 100)
    /\ UNCHANGED <<today, mastered24h, dbVars, activeDays, auxVars>>

\* calculate_student_analytics, aggregate_analytics and award_points, one
\* request at a time
NextReaggregate ==
    \E p \in Procs :
        StartAnalytics(p) \/ AnStats(p) \/ AnSelect(p) \/ AnCommit(p)
        \/ StartAggregate(p) \/ AgStudents(p) \/ AgStats(p) \/ AgSelect(p)
        \/ AgCommit(p)
        \/ StartAwardBetween(p) \/ ApSelect(p) \/ ApFlush(p) \/ ApCommit(p)
        \/ BaSelect(p) \/ BaEval(p) \/ Return(p)

SpecReaggregate == InitAnalytics /\ [][NextReaggregate]_vars

\* C24: when calculate_student_analytics or aggregate_analytics has returned
\* for a key that had a record when the request started, every derived
\* field of the record is a number computed by this request from the stored
\* data: the numbers the operation computes for concepts_started,
\* concepts_completed, concepts_mastered, time_spent and average_score, and
\* the points and badges earned in the period.
C24_EveryFieldReplaced ==
    \A p \in Procs :
        /\ (op[p] = "calculate_student_analytics" /\ pc[p] = "done")
           => \A r \in AnalyticsOf(analytics, args[p].student_id,
                                   args[p].period, args[p].target_date) :
                  AnalyticsOf(pre[p].analytics, r.student_id, r.period,
                              r.period_date) # {}
                  => StatsOfRow(r)
                         = StudentStats(r.student_id, r.period, r.period_date)
        /\ (op[p] = "aggregate_analytics" /\ pc[p] = "done")
           => \A student \in Students :
              \A r \in AnalyticsOf(analytics, student, args[p].period,
                                   args[p].target_date) :
                  AnalyticsOf(pre[p].analytics, r.student_id, r.period,
                              r.period_date) # {}
                  => LET fresh == StudentStats(r.student_id, r.period,
                                               r.period_date)
                         router == RouterStats(r.student_id, r.period,
                                               r.period_date)
                     IN  /\ \A f \in DOMAIN router : r[f] = router[f]
                         /\ r.points_earned = fresh.points_earned
                         /\ r.badges_earned = fresh.badges_earned

----------------------------------------------------------------------------
(* The badge criteria *)

\* C25: the criteria of a badge are met only for "Quick Learner" on a
\* concept_mastered event with at least 5 masteries in the trailing 24
\* hours, "Consistency King" on a daily_streak event with streak_days >= 7,
\* and "Subject Master" on a concept_mastered event that carries a subject
\* with subject_completion >= 100; for every other badge and event the
\* evaluation gives false and the call does not raise.  The loop sees only
\* active badges, and only an active badge whose criteria are met is
\* reported or gets a UserBadge row.
C25_CriteriaFalseElsewhere ==
    LET Met(badge, e) ==
            \/ /\ badge.name = "Quick Learner"
               /\ e.type = "concept_mastered"
               /\ mastered24h >= 5
            \/ /\ badge.name = "Consistency King"
               /\ e.type = "daily_streak"
               /\ e.streak_days >= 7
            \/ /\ badge.name = "Subject Master"
               /\ e.type = "concept_mastered"
               /\ e.subject
               /\ e.subject_completion >= 100
    IN  \A p \in Procs :
            /\ pc[p] # "raised"
            /\ \A i \in 1..Len(badges[p]) :
                   /\ badges[p][i].is_active
                   /\ check_badge_criteria(badges[p][i], event[p], mastered24h)
                          = Met(badges[p][i], event[p])
            /\ pc[p] = "ba_commit"
               => Met(badges[p][bidx[p]], event[p])
            /\ \A b \in Range(earned[p]) :
                   BadgeById(b).is_active /\ Met(BadgeById(b), event[p])
            /\ \A b \in BadgeIds :
                   (userBadges[b] > 0 /\ b \notin pre[p].held /\ op[p] # "none")
                   => BadgeById(b).is_active /\ Met(BadgeById(b), event[p])

\* a daily_streak event that carries a completed subject but a streak of 0
\* days has been evaluated against every active badge and none was awarded
C25_Witness ==
    \E p \in Procs :
        /\ op[p] = "check_and_award_badges" /\ pc[p] = "done"
        /\ event[p].type = "daily_streak"
        /\ event[p].subject /\ event[p].subject_completion >= 100
        /\ event[p].streak_days < 7
        /\ Len(badges[p]) = 4
        /\ earned[p] = << >>
        /\ \A b \in BadgeIds : userBadges[b] = 0

----------------------------------------------------------------------------
(* AnalyticsEngine: the mastery efficiency.  Averages are fractions        *)
(* [num, den] with den > 0; hours are counted from the half-day ticks of   *)
(* the datetimes, 12 hours each.                                           *)

\* avg_attempts and avg_hours handed to _calculate_efficiency_score
AttemptInputs == {Ratio(n, d) : n \in 0..12, d \in {1, 2, 3}}
HourInputs == {Ratio(n, d) : n \in {0, 1, 49, 50, 51, 100, 200}, d \in {1, 2}}

\* AnalyticsEngine._calculate_efficiency_score
calculate_efficiency_score(avg_attempts, avg_hours) ==
    LET \* max(0, 100 - (avg_attempts - 1) * 20), over avg_attempts.den
        attempt_score ==
            Max(0, 100 * avg_attempts.den
                   - (avg_attempts.num - avg_attempts.den) * 20)
        \* max(0, 100 - avg_hours * 2), over avg_hours.den
        time_score == Max(0, 100 * avg_hours.den - avg_hours.num * 2)
    IN  Ratio(attempt_score * avg_hours.den + time_score * avg_attempts.den,
              2 * avg_attempts.den * avg_hours.den)

\* the rows the query of calculate_mastery_efficiency averages
MasteredRows(student) ==
    {r \in RowsOf(student) : r.status = "mastered" /\ r.mastered_at # NoDate}

RECURSIVE SumMasteryTicks(_)
SumMasteryTicks(rows) ==
    IF rows = {} THEN 0
    ELSE LET r == CHOOSE x \in rows : TRUE
         IN  (r.mastered_at - r.created_at) + SumMasteryTicks(rows \ {r})

\* AnalyticsEngine.calculate_mastery_efficiency: avg() over no rows is None,
\* which `or 0` turns into 0
calculate_mastery_efficiency(student) ==
    LET rows == MasteredRows(student)
        avg_attempts ==
            IF rows = {} THEN Ratio(0, 1)
            \* SumAttempts counts 300 seconds per attempt
            ELSE Ratio(SumAttempts(rows) \div 300, Cardinality(rows))
        avg_hours ==
            IF rows = {} THEN Ratio(0, 1)
            ELSE Ratio(12 * SumMasteryTicks(rows), Cardinality(rows))
    IN  [average_attempts_to_mastery |-> avg_attempts,
         average_hours_to_mastery |-> avg_hours,
         efficiency_score |->
             calculate_efficiency_score(avg_attempts, avg_hours)]

\* _calculate_efficiency_score is called with two averages
CallEfficiencyScore ==
    /\ calc = NoCall
    /\ \E avg_attempts \in AttemptInputs : \E avg_hours \in HourInputs :
           calc' = [fn |-> "_calculate_efficiency_score",
                    avg_attempts |-> avg_attempts, avg_hours |-> avg_hours,
                    mastered |-> 0,
                    efficiency_score |->
                        calculate_efficiency_score(avg_attempts, avg_hours)]
    /\ UNCHANGED <<today, mastered24h, dbVars, reqVars, activeDays, concepts,
                   awardedAt, awards, earnedAt, analytics>>

\* calculate_mastery_efficiency is called on the stored rows
CallMasteryEfficiency ==
    /\ calc = NoCall
    /\ \E student \in Students :
           LET out == calculate_mastery_efficiency(student) IN
           calc' = [fn |-> "calculate_mastery_efficiency",
                    avg_attempts |-> out.average_attempts_to_mastery,
                    avg_hours |-> out.average_hours_to_mastery,
                    mastered |-> Cardinality(MasteredRows(student)),
                    efficiency_score |-> out.efficiency_score]
    /\ UNCHANGED <<today, mastered24h, dbVars, reqVars, activeDays, concepts,
                   awardedAt, awards, earnedAt, analytics>>

NextEfficiency == CallEfficiencyScore \/ CallMasteryEfficiency \/ CalcReturn

SpecEfficiency == InitAnalytics /\ [][NextEfficiency]_vars

\* C26: for averages avg_attempts >= 0 and avg_hours >= 0, those of a
\* student without mastered concepts included, the efficiency score is at
\* least 0 and at most 100.
C26_EfficiencyRange ==
    calc.fn \in {"_calculate_efficiency_score", "calculate_mastery_efficiency"}
    => /\ calc.efficiency_score.num >= 0
       /\ calc.efficiency_score.num <= 100 * calc.efficiency_score.den

----------------------------------------------------------------------------
(* The concept progress endpoints.  A ConceptProgress row is found by its  *)
(* (student, concept), which the unique constraint makes a key; the id of  *)
(* update_concept_progress stands for such a pair.                         *)

MaxAttempts == 2

\* a field the request body leaves unset
Unset == "unset"

\* the bodies of POST /progress/concepts
CreateInputs ==
    {[student_id |-> "s1", concept_id |-> "c1", status |-> st] :
         st \in {"not_started", "in_progress", "mastered"}}

\* the bodies of PUT /progress/concepts/{id}: a status, a score or both
UpdateInputs ==
    {[status |-> st, current_score |-> NoScore] :
         st \in {"in_progress", "completed", "mastered"}}
    \cup {[status |-> Unset, current_score |-> 80],
          [status |-> "mastered", current_score |-> 100]}

\* the rows a select on (student, concept) finds
ConceptOf(student, concept) ==
    {r \in concepts : r.student_id = student /\ r.concept_id = concept}

\* update_concept_progress from "Handle status transitions" to the setattr
\* loop, on the loaded row
update_concept_row(row, update) ==
    LET stamped ==
            IF update.status = Unset THEN row
            ELSE IF update.status = "completed" /\ row.status # "completed"
            THEN [row EXCEPT !.status = update.status, !.completed_at = Now]
            ELSE IF update.status = "mastered" /\ row.status # "mastered"
            THEN [row EXCEPT !.status = update.status, !.mastered_at = Now]
            ELSE [row EXCEPT !.status = update.status]
    IN  IF update.current_score = NoScore THEN stamped
        ELSE [stamped EXCEPT !.attempts = @ + 1,
                             !.current_score = update.current_score]

\* POST /progress/concepts
StartCreateConcept(p) ==
    /\ Idle
    /\ \E body \in CreateInputs :
           BeginRequest(p, "create_concept_progress", "cc_select",
                        [body |-> body])
    /\ UNCHANGED <<today, mastered24h, dbVars, activeDays, auxVars>>

\* the select of the existing row, then setattr of the body on it or
\* db.add() of a new row
CcSelect(p) ==
    /\ pc[p] = "cc_select"
    /\ LET body == args[p].body
           found == ConceptOf(body.student_id, body.concept_id)
       IN  IF found = {}
           THEN /\ created' = [created EXCEPT ![p] = TRUE]
                /\ obj' = [obj EXCEPT ![p] =
                       ConceptRow(body.student_id, body.concept_id,
                                  body.status, Now, NoDate, NoDate, NoDate, 0,
                                  NoScore)]
                /\ was' = was
           ELSE /\ created' = created
                /\ was' = [was EXCEPT ![p] = CHOOSE r \in found : TRUE]
                /\ obj' = [obj EXCEPT ![p] =
                       [(CHOOSE r \in found : TRUE)
                            EXCEPT !.status = body.status]]
    /\ pc' = [pc EXCEPT ![p] = "cc_commit"]
    /\ UNCHANGED <<args, failed, auxVars,
                   today, mastered24h, dbVars, activeDays, op, event, amount,
                   badges, bidx, earned, result, err, pre>>

\* db.commit(); db.refresh(db_concept)
CcCommit(p) ==
    /\ pc[p] = "cc_commit"
    /\ concepts' = IF created[p] THEN concepts \cup {obj[p]}
                   ELSE (concepts \ {was[p]}) \cup {obj[p]}
    /\ result' = [result EXCEPT ![p] = [kind |-> "concept", row |-> obj[p]]]
    /\ pc' = [pc EXCEPT ![p] = "done"]
    /\ UNCHANGED <<args, failed, awardedAt, awards, earnedAt, analytics, calc,
                   today, mastered24h, dbVars, activeDays, op, event, amount,
                   badges, bidx, earned, was, obj, created, err, pre>>

\* PUT /progress/concepts/{concept_progress_id}
StartUpdateConcept(p) ==
    /\ Idle
    /\ \E update \in UpdateInputs :
           /\ \A r \in ConceptOf("s1", "c1") :
                  update.current_score # NoScore => r.attempts < MaxAttempts
           /\ BeginRequest(p, "update_concept_progress", "uc_select",
                           [student_id |-> "s1", concept_id |-> "c1",
                            update |-> update])
    /\ UNCHANGED <<today, mastered24h, dbVars, activeDays, auxVars>>

\* the select by id: HTTP 404 when no row has it, else the changes are made
\* on the loaded row
UcSelect(p) ==
    /\ pc[p] = "uc_select"
    /\ LET found == ConceptOf(args[p].student_id, args[p].concept_id) IN
       IF found = {}
       THEN /\ Raise(p, "update_concept_progress")
            /\ UNCHANGED <<was, obj>>
       ELSE /\ was' = [was EXCEPT ![p] = CHOOSE r \in found : TRUE]
            /\ obj' = [obj EXCEPT ![p] =
                   update_concept_row(CHOOSE r \in found : TRUE,
                                      args[p].update)]
            /\ pc' = [pc EXCEPT ![p] = "uc_commit"]
            /\ err' = err
    /\ UNCHANGED <<args, failed, auxVars,
                   today, mastered24h, dbVars, activeDays, op, event, amount,
                   badges, bidx, earned, created, result, pre>>

\* db.commit(); db.refresh(concept_progress)
UcCommit(p) ==
    /\ pc[p] = "uc_commit"
    /\ concepts' = (concepts \ {was[p]}) \cup {obj[p]}
    /\ result' = [result EXCEPT ![p] = [kind |-> "concept", row |-> obj[p]]]
    /\ pc' = [pc EXCEPT ![p] = "done"]
    /\ UNCHANGED <<args, failed, awardedAt, awards, earnedAt, analytics, calc,
                   today, mastered24h, dbVars, activeDays, op, event, amount,
                   badges, bidx, earned, was, obj, created, err, pre>>

NextProgress ==
    \E p \in Procs :
        StartCreateConcept(p) \/ CcSelect(p) \/ CcCommit(p)
        \/ StartUpdateConcept(p) \/ UcSelect(p) \/ UcCommit(p)
        \/ StartBulkUpdate(p) \/ BuSelect(p) \/ BuCommit(p) \/ Return(p)

SpecProgress == Init /\ [][NextProgress]_vars

\* C27: a stored ConceptProgress row that has a mastered_at has the status
\* mastered.
C27_MasteredAtOnlyIfMastered ==
    \A r \in concepts : r.mastered_at # NoDate => r.status = "mastered"

----------------------------------------------------------------------------
(* Points: the total and the history *)

\* C28: with one request at a time, after any sequence of award_points
\* calls that committed or failed, total_points (0 while no row is stored)
\* is the sum of points_awarded over the PointHistory entries, and the
\* number of entries is the number of award_points calls that committed.
C28_TotalIsHistorySum ==
    /\ PointsView.total_points = SumSeq(pointHistory)
    /\ Len(pointHistory) = awards

\* two awards have committed and a later one has failed
C28_Witness ==
    \E p \in Procs :
        /\ op[p] = "award_points" /\ pc[p] = "raised"
        /\ awards = 2
        /\ Len(pointHistory) = 2
        /\ points # NoRow
        /\ points.total_points > 0
        /\ points.total_points = pointHistory[1] + pointHistory[2]

----------------------------------------------------------------------------
(* Concurrent update_streak calls *)

\* update_streak is called while another call may be running
StartUpdateStreakConcurrent(p) ==
    /\ Begin(p, "update_streak", "us_select", NoEvent, 0)
    /\ activeDays' = activeDays \cup {today}
    /\ UNCHANGED <<today, mastered24h, dbVars, auxVars>>

NextStreakConc ==
    \/ AdvanceDay
    \/ \E p \in Procs :
        StartUpdateStreakConcurrent(p) \/ UsSelect(p) \/ UsCommit(p)
        \/ BaSelect(p) \/ BaEval(p) \/ BaCommit(p) \/ Return(p)

SpecStreakConc == Init /\ [][NextStreakConc]_vars

\* update_streak calls that are past their commit, or returned before it
StreakCallsEnded ==
    {p \in Procs : op[p] = "update_streak"
                   /\ pc[p] \in {"ba_select", "ba_eval", "ba_commit", "done",
                                 "raised"}}

\* C29: when two update_streak calls that started from the same stored
\* state on the same day have both ended, the stored Streak row is the one
\* a single call produces from that state (a new streak of 1 when no row was
\* stored, one step further when the last activity was yesterday, unchanged
\* when it was today), total_active_days has grown by at most 1, and at most
\* one of the calls has inserted a Streak row.
C29_ConcurrentUpdateOnce ==
    \A p, q \in StreakCallsEnded :
        (p # q /\ pre[p].streak = pre[q].streak)
        => /\ streak = IF pre[p].streak = NoRow THEN NewStreak(today)
                       ELSE update_streak_row(pre[p].streak, today).row
           /\ streak.total_active_days
                  <= (IF pre[p].streak = NoRow THEN 0
                      ELSE pre[p].streak.total_active_days) + 1
           /\ Cardinality({r \in {p, q} : created[r] /\ pc[r] # "raised"}) <= 1

\* two calls read a streak of 2 last fed yesterday before either committed,
\* and both have returned
C29_Witness ==
    \E p, q \in Procs :
        /\ p # q
        /\ op[p] = "update_streak" /\ op[q] = "update_streak"
        /\ pc[p] = "done" /\ pc[q] = "done"
        /\ pre[p].streak # NoRow /\ pre[p].streak = pre[q].streak
        /\ pre[p].streak.current_streak = 2
        /\ pre[p].streak.last_activity_date = today - 1
        /\ was[p] = pre[p].streak /\ was[q] = pre[q].streak
        /\ streak.current_streak = 3
        /\ streak.total_active_days = pre[p].streak.total_active_days + 1


----------------------------------------------------------------------------
(* The Consistency King award of update_streak *)

\* update_streak day after day, with a badge evaluation whose selects and
\* whose commit can fail
NextStreakAward ==
    \/ AdvanceDay
    \/ \E p \in Procs :
        StartUpdateStreak(p) \/ UsSelect(p) \/ UsCommit(p)
        \/ BaSelect(p) \/ BaSelectFail(p) \/ BaEval(p) \/ BaLookupFail(p)
        \/ BaCommit(p) \/ BaCommitFail(p) \/ Return(p)

SpecStreakAward == Init /\ [][NextStreakAward]_vars

\* the ids of the active badges named "Consistency King"
ConsistencyKings ==
    {ActiveBadges[i].id : i \in {j \in 1..Len(ActiveBadges) :
                                    ActiveBadges[j].name = "Consistency King"}}

\* C30: when an update_streak call that committed a streak row with
\* current_streak >= 7 has returned, and an active badge named
\* "Consistency King" exists whose award did not fail at its commit, the
\* student has a UserBadge row of that badge: this call awarded it, or the
\* student held it when the call started.
C30_ConsistencyKingAwarded ==
    \A p \in Procs :
        (/\ op[p] = "update_streak" /\ pc[p] = "done"
         /\ event[p].type = "daily_streak"
         /\ streak # NoRow /\ streak = result[p].row
         /\ result[p].row.current_streak >= 7)
        => \A b \in ConsistencyKings :
               b \notin failed[p]
               => /\ userBadges[b] = 1
                  /\ (b \in Range(earned[p])) # (b \in pre[p].held)

\* the call that committed the seventh day of a streak has returned and
\* has awarded the badge, which the student did not hold before
C30_Witness ==
    \E p \in Procs :
        /\ op[p] = "update_streak" /\ pc[p] = "done"
        /\ event[p].type = "daily_streak"
        /\ streak # NoRow /\ streak = result[p].row
        /\ result[p].row.current_streak = 7
        /\ failed[p] = {}
        /\ ConsistencyKings # {}
        /\ \A b \in ConsistencyKings :
               /\ b \notin pre[p].held /\ b \in Range(earned[p])
               /\ userBadges[b] = 1

====
